---------------------------- MODULE Spec2Model ----------------------------
(***************************************************************************)
(* ProTrace: perceptual-DNA registry with a Merkle commitment tree.        *)
(*                                                                         *)
(* Byte strings are sequences.  A text string is a sequence of one-        *)
(* character strings; the concatenation of two 32-byte digests is the      *)
(* two-element sequence of the digests.  A digest is the record            *)
(* [pre |-> preimage]: equal digests have equal preimages (no collisions), *)
(* and the digest of a 64-byte text that happens to be the concatenation   *)
(* of two digests is the digest of the inner node over them, as in the     *)
(* code, which has no leaf/inner domain separation.                        *)
(***************************************************************************)
EXTENDS Integers, Sequences, FiniteSets, TLC

(***************************************************************************)
(* Bounds of the model.                                                    *)
(***************************************************************************)
MaxCalls == 2
MaxLeaves == 3

(***************************************************************************)
(* Program constants.                                                      *)
(***************************************************************************)
DnaBits == 256
DnaHexLen == 64
SimilarityThresholdNum == 90
SimilarityThresholdDen == 100
DefaultThresholdBits == 26

(***************************************************************************)
(* Text helpers.                                                           *)
(***************************************************************************)
HexChars == <<"0","1","2","3","4","5","6","7","8","9","a","b","c","d","e","f">>

\* int(c, 16) of one hex digit
HexDigitValue == [c \in {HexChars[i] : i \in 1..16} |-> (CHOOSE i \in 1..16 : HexChars[i] = c) - 1]
HexVal(c) == HexDigitValue[c]

RECURSIVE DecStr(_)
\* str(n) for a non-negative integer, as the f-string formats the timestamp
DecStr(n) ==
    IF n < 10 THEN <<HexChars[n + 1]>>
    ELSE DecStr(n \div 10) \o <<HexChars[(n % 10) + 1]>>

RECURSIVE SplitFirst(_)
\* s.split('|')[0]
SplitFirst(s) ==
    IF s = <<>> \/ Head(s) = "|" THEN <<>>
    ELSE <<Head(s)>> \o SplitFirst(Tail(s))

Pow2(k) == IF k = 0 THEN 1 ELSE IF k = 1 THEN 2 ELSE IF k = 2 THEN 4 ELSE IF k = 3 THEN 8 ELSE 16

Min(a, b) == IF a < b THEN a ELSE b
Max(a, b) == IF a > b THEN a ELSE b

(***************************************************************************)
(* image_dna.py: distance and similarity of two DNA hex strings.           *)
(***************************************************************************)
\* number of bits set in the hex digit a and not in b
NibbleAndNotCount(a, b) ==
    Cardinality({k \in 0..3 : ((a \div Pow2(k)) % 2) = 1 /\ ((b \div Pow2(k)) % 2) = 0})

\* number of set bits of (a XOR b) for two hex digits
NibbleXorCount(a, b) ==
    Cardinality({k \in 0..3 : ((a \div Pow2(k)) % 2) # ((b \div Pow2(k)) % 2)})

RECURSIVE XorCountFrom(_, _, _)
XorCountFrom(hash1, hash2, i) ==
    IF i > Len(hash1) THEN 0
    ELSE (IF hash1[i] = hash2[i] THEN 0 ELSE NibbleXorCount(HexVal(hash1[i]), HexVal(hash2[i])))
         + XorCountFrom(hash1, hash2, i + 1)

\* hamming_distance: bin(int(hash1,16) ^ int(hash2,16)).count('1');
\* -1 stands for the ValueError raised on a length mismatch
hamming_distance(hash1, hash2) ==
    IF Len(hash1) # Len(hash2) THEN -1
    ELSE XorCountFrom(hash1, hash2, 1)

\* dna_similarity: 1.0 - distance/256.0, kept as the numerator over 256.
\* distance/256.0 and the subtraction are exact in binary64.
dna_similarity(hash1, hash2) == DnaBits - hamming_distance(hash1, hash2)

\* similarity >= threshold for threshold = num/den.  The double nearest to
\* 0.90 lies strictly between 230/256 and 231/256, as does 90/100, so the float
\* comparison and this integer comparison agree for every distance.
SimAtLeast(sim, num, den) == sim * den >= num * DnaBits

\* is_duplicate(hash1, hash2, threshold): distance <= threshold
is_duplicate(hash1, hash2, threshold) == hamming_distance(hash1, hash2) <= threshold

(***************************************************************************)
(* merkle.py: hashing, tree construction, proofs.                          *)
(***************************************************************************)
\* blake3_hash (or its SHA-256 fallback): a collision-free digest
blake3_hash(data) == [pre |-> data]

\* bytes.hex() of a digest or of a leaf preimage, and bytes.fromhex() back
HexOf(bytes) == [hex |-> bytes]
FromHex(text) == text.hex

\* Optional values: None is the empty sequence, a value v is <<v>>
None == <<>>
Some(v) == <<v>>

\* the f-string of add_leaf / compute_leaf_hash, UTF-8 encoded
LeafData(dna_hex, pointer, platform_id, timestamp) ==
    dna_hex \o <<"|">> \o pointer \o <<"|">> \o platform_id \o <<"|">> \o DecStr(timestamp)

\* MerkleNode(data=leaf).hash for every leaf
LeafNodes(leaves) == [i \in 1..Len(leaves) |-> blake3_hash(leaves[i])]

\* MerkleNode(left, right).hash
ParentHash(left, right) == blake3_hash(<<left, right>>)

\* one pass of the bottom-up loop: pairs (i, i+1), the last node paired with
\* itself when the level has odd length
NextLevel(nodes) ==
    [j \in 1..((Len(nodes) + 1) \div 2) |->
        ParentHash(nodes[2 * j - 1],
                   IF 2 * j <= Len(nodes) THEN nodes[2 * j] ELSE nodes[2 * j - 1])]

RECURSIVE TopOfPairingLast(_)
\* the bottom-up loop running one more pass on the last node: a level of
\* one node is paired with itself too
TopOfPairingLast(nodes) ==
    IF Len(nodes) <= 1 THEN ParentHash(nodes[1], nodes[1])
    ELSE TopOfPairingLast(NextLevel(nodes))

RECURSIVE TopOf(_)
\* the while loop of build_tree: the node left when one node remains
TopOf(nodes) == IF Len(nodes) <= 1 THEN nodes[1] ELSE TopOf(NextLevel(nodes))

\* MerkleTree.build_tree: the value stored in self.root (None for no leaves)
build_tree(leaves) ==
    IF leaves = <<>> THEN None ELSE Some(TopOf(LeafNodes(leaves)))

\* MerkleTree.get_root and the return value of build_tree: hex of the root
get_root(root) == IF root = None THEN None ELSE Some(HexOf(root[1]))

RECURSIVE ProofFromZeroPad(_, _)
\* get_proof giving the last node of an odd level the all-zero digest that
\* MerkleNode uses for a missing child as its sibling, instead of the node
\* itself
ProofFromZeroPad(nodes, current_index) ==
    IF Len(nodes) <= 1 THEN <<>>
    ELSE LET i == current_index - (current_index % 2)
             left == nodes[i + 1]
             right == IF i + 1 < Len(nodes) THEN nodes[i + 2]
                      ELSE [pre |-> <<"0", "0", "0", "0">>]
             element == IF i = current_index
                        THEN [hash |-> HexOf(right), position |-> "right"]
                        ELSE [hash |-> HexOf(left), position |-> "left"]
         IN  <<element>> \o ProofFromZeroPad(NextLevel(nodes), i \div 2)

RECURSIVE ProofFrom(_, _)
\* the while loop of get_proof; current_index is 0-based as in the code
ProofFrom(nodes, current_index) ==
    IF Len(nodes) <= 1 THEN <<>>
    ELSE LET i == current_index - (current_index % 2)
             left == nodes[i + 1]
             right == IF i + 1 < Len(nodes) THEN nodes[i + 2] ELSE nodes[i + 1]
             element == IF i = current_index
                        THEN [hash |-> HexOf(right), position |-> "right"]
                        ELSE [hash |-> HexOf(left), position |-> "left"]
         IN  <<element>> \o ProofFrom(NextLevel(nodes), i \div 2)

\* get_proof starting its walk at the level of the leaves' parents
get_proof_from_parents(leaves, root, leaf_index) ==
    IF leaf_index < 0 \/ leaf_index >= Len(leaves) THEN [error |-> "IndexError", proof |-> <<>>]
    ELSE IF root = None THEN [error |-> "ValueError", proof |-> <<>>]
    ELSE [error |-> "",
          proof |-> ProofFrom(NextLevel(LeafNodes(leaves)), leaf_index \div 2)]

\* MerkleTree.get_proof: "IndexError", "ValueError" or the proof
get_proof(leaves, root, leaf_index) ==
    IF leaf_index < 0 \/ leaf_index >= Len(leaves) THEN [error |-> "IndexError", proof |-> <<>>]
    ELSE IF root = None THEN [error |-> "ValueError", proof |-> <<>>]
    ELSE [error |-> "", proof |-> ProofFrom(LeafNodes(leaves), leaf_index)]

RECURSIVE FoldProofIgnoringPosition(_, _)
\* verify_proof hashing every sibling on the right, whatever its position
FoldProofIgnoringPosition(current_hash, proof) ==
    IF proof = <<>> THEN current_hash
    ELSE LET sibling_hash == FromHex(Head(proof).hash)
         IN  FoldProofIgnoringPosition(blake3_hash(<<current_hash, sibling_hash>>),
                                       Tail(proof))

RECURSIVE FoldProof(_, _)
\* the for loop of verify_proof
FoldProof(current_hash, proof) ==
    IF proof = <<>> THEN current_hash
    ELSE LET sibling_hash == FromHex(Head(proof).hash)
         IN  FoldProof(IF Head(proof).position = "left"
                       THEN blake3_hash(<<sibling_hash, current_hash>>)
                       ELSE blake3_hash(<<current_hash, sibling_hash>>),
                       Tail(proof))

\* MerkleTree.verify_proof / verify_proof_standalone
verify_proof(leaf_data, proof, root_hash) ==
    Some(HexOf(FoldProof(blake3_hash(leaf_data), proof))) = root_hash

(***************************************************************************)
(* Inputs: images are given by construction of their DNA, a 256-bit value  *)
(* whose leading ImageOnes[image] bits are set, so that two images differ  *)
(* in exactly the difference of those counts.                              *)
(***************************************************************************)
ValidImages == {"A", "B", "C", "D"}
Images == ValidImages \cup {"corrupt", "missing"}

ImageOnes == [image \in ValidImages |->
                 CASE image = "A" -> 0
                   [] image = "B" -> 26
                   [] image = "C" -> 53
                   [] image = "D" -> 25]

\* the 64-digit hex string with the leading `ones' bits set
DnaWithOnes(ones) ==
    [i \in 1..DnaHexLen |->
        HexChars[(16 - Pow2(4 - Min(4, Max(0, ones - 4 * (i - 1))))) + 1]]

\* compute_dna(image_path)['dna_hex']; None stands for the exception
\* raised by Image.open on an undecodable file
ImageDna == [image \in ValidImages |-> DnaWithOnes(ImageOnes[image])]
compute_dna(image_path) ==
    IF image_path \in ValidImages THEN Some(ImageDna[image_path]) ELSE None

\* os.path.exists(image_path)
path_exists(image_path) == image_path # "missing"

\* os.path.basename(image_path)
basename(image_path) == <<image_path>>

Pointers == {None, Some(<<"p", "|", "q">>)}
Manual == <<"m", "a", "n", "u", "a", "l">>
Platforms == {Manual}
Times == {10}

(***************************************************************************)
(* register_image.py: duplicate check.                                     *)
(***************************************************************************)
MatchInfo(new_dna, existing_dnas, idx, similarity) ==
    [index |-> idx - 1,
     similarity |-> similarity,
     hamming_distance |-> hamming_distance(new_dna, existing_dnas[idx]),
     existing_dna |-> existing_dnas[idx]]

RECURSIVE ScanDuplicatesLastMatch(_, _, _, _, _, _, _)
\* check_for_duplicates without the early exit: the scan goes on while a
\* later entry reaches the threshold too
ScanDuplicatesLastMatch(new_dna, existing_dnas, num, den, idx, max_similarity, best_match_idx) ==
    IF idx > Len(existing_dnas)
    THEN IF best_match_idx >= 1
         THEN [is_duplicate |-> FALSE,
               match_info |-> Some(MatchInfo(new_dna, existing_dnas, best_match_idx, max_similarity))]
         ELSE [is_duplicate |-> FALSE, match_info |-> None]
    ELSE LET similarity == dna_similarity(new_dna, existing_dnas[idx])
             better == similarity > max_similarity
             later == \E j \in (idx + 1)..Len(existing_dnas) :
                          SimAtLeast(dna_similarity(new_dna, existing_dnas[j]), num, den)
         IN  IF SimAtLeast(similarity, num, den) /\ ~later
             THEN [is_duplicate |-> TRUE,
                   match_info |-> Some(MatchInfo(new_dna, existing_dnas, idx, similarity))]
             ELSE ScanDuplicatesLastMatch(new_dna, existing_dnas, num, den, idx + 1,
                                          IF better THEN similarity ELSE max_similarity,
                                          IF better THEN idx ELSE best_match_idx)

RECURSIVE ScanDuplicates(_, _, _, _, _, _, _)
\* the for loop of check_for_duplicates from position idx (1-based) with the
\* running max_similarity and best_match_idx (0 for the code's -1)
ScanDuplicates(new_dna, existing_dnas, num, den, idx, max_similarity, best_match_idx) ==
    IF idx > Len(existing_dnas)
    THEN IF best_match_idx >= 1
         THEN [is_duplicate |-> FALSE,
               match_info |-> Some(MatchInfo(new_dna, existing_dnas, best_match_idx, max_similarity))]
         ELSE [is_duplicate |-> FALSE, match_info |-> None]
    ELSE LET similarity == dna_similarity(new_dna, existing_dnas[idx])
             better == similarity > max_similarity
         IN  IF SimAtLeast(similarity, num, den)
             THEN [is_duplicate |-> TRUE,
                   match_info |-> Some(MatchInfo(new_dna, existing_dnas, idx, similarity))]
             ELSE ScanDuplicates(new_dna, existing_dnas, num, den, idx + 1,
                                 IF better THEN similarity ELSE max_similarity,
                                 IF better THEN idx ELSE best_match_idx)

\* check_for_duplicates(new_dna, existing_dnas, threshold = num/den)
check_for_duplicates(new_dna, existing_dnas, num, den) ==
    IF existing_dnas = <<>> THEN [is_duplicate |-> FALSE, match_info |-> None]
    ELSE ScanDuplicates(new_dna, existing_dnas, num, den, 1, 0, 0)

(***************************************************************************)
(* register_image.py: the registry file.                                   *)
(***************************************************************************)
AbsentFile == [kind |-> "absent", leaves |-> <<>>, root_hash |-> None, leaf_count |-> 0]
\* a file opened with 'w' and not (completely) written: not valid JSON
PartialFile == [kind |-> "partial", leaves |-> <<>>, root_hash |-> None, leaf_count |-> 0]

\* the data dict of save_merkle_tree
SavedData(tree) ==
    [kind |-> "json",
     leaves |-> [i \in 1..Len(tree.leaves) |-> HexOf(tree.leaves[i])],
     root_hash |-> IF tree.root # None THEN Some(HexOf(tree.root[1])) ELSE None,
     leaf_count |-> Len(tree.leaves)]

RECURSIVE SumLen(_)
SumLen(texts) == IF texts = <<>> THEN 0 ELSE 2 * Len(FromHex(Head(texts))) + 8 + SumLen(Tail(texts))

\* number of characters json.dump(data, f, indent=2) writes, up to a constant
JsonLen(data) ==
    SumLen(data.leaves) + (IF data.root_hash = None THEN 4 ELSE 66) + Len(DecStr(data.leaf_count))

\* the leaves load_merkle_tree reconstructs: bytes.fromhex of each entry
FileLeaves(f) == [i \in 1..Len(f.leaves) |-> FromHex(f.leaves[i])]

\* load_merkle_tree that reconstructs the leaves and does not rebuild the tree
load_merkle_tree_unbuilt(f) ==
    LET leaves == FileLeaves(f)
    IN  [merkle |-> [leaves |-> leaves, root |-> None],
         dna_hashes |-> [i \in 1..Len(leaves) |-> SplitFirst(leaves[i])]]

\* load_merkle_tree on a readable file: (merkle, dna_hashes)
load_merkle_tree(f) ==
    LET leaves == FileLeaves(f)
    IN  [merkle |-> [leaves |-> leaves,
                     root |-> IF leaves # <<>> THEN build_tree(leaves) ELSE None],
         dna_hashes |-> [i \in 1..Len(leaves) |-> SplitFirst(leaves[i])]]

\* MerkleTree.add_leaf: appends the preimage, leaves self.root as it is
add_leaf(tree, dna_hex, pointer, platform_id, timestamp) ==
    [tree EXCEPT !.leaves = Append(@, LeafData(dna_hex, pointer, platform_id, timestamp))]

(***************************************************************************)
(* The state: concurrent register_image calls on one registry file, a      *)
(* MerkleTree object, a proof under verification, the API server registry. *)
(***************************************************************************)
VARIABLES
    file,           \* content of merkle_tree.json
    pc,             \* position of each caller inside register_image
    args,           \* image_path, pointer, platform_id of the call
    new_dna,        \* local new_dna
    merkle,         \* local MerkleTree: leaves and root
    existing_dnas,  \* local existing_dnas
    check,          \* (is_duplicate, match_info)
    result,         \* the returned dictionary
    started,        \* number of calls started so far
    file_before,    \* history: the file when the call started
    interfered,     \* history: another caller wrote the file since then
    wrote,          \* history: this call opened the file for writing
    epoch           \* history: the calls started since the registry was last idle

regVars == <<file, pc, args, new_dna, merkle, existing_dnas, check, result,
             started, file_before, interfered, wrote, epoch>>

VARIABLES
    tree,       \* the MerkleTree: leaves and root
    observed    \* what the latest reader call saw: the leaves and get_root()

treeVars == <<tree, observed>>

VARIABLES
    p_leaves,   \* the leaf sequence of the registry
    p_index,    \* the leaf index the proof was asked for, -1 before
    vleaf,      \* leaf_data handed to verify_proof
    vproof,     \* proof handed to verify_proof
    vroot,      \* root_hash handed to verify_proof
    vkind,      \* "", "genuine", or what was tampered with
    vat,        \* the proof position tampered with, 0 if none
    vresult     \* None, or the value verify_proof returned

proofVars == <<p_leaves, p_index, vleaf, vproof, vroot, vkind, vat, vresult>>

VARIABLES
    api_registry,   \* state.registry as the sequence of its items
    api_response    \* the latest response

apiVars == <<api_registry, api_response>>

VARIABLES
    b_file,             \* content of merkle_tree.json
    b_pc,               \* position inside process_folder
    b_images,           \* local images, the files found in the folder
    b_next,             \* position of the for loop in images
    b_existing_hashes,  \* local existing_hashes
    b_merkle,           \* local merkle
    b_accepted,         \* local accepted
    b_outcomes,         \* the line printed for each image so far
    b_file_before,      \* history: the file when process_folder was called
    b_times             \* history: the clock at each pass of the loop

batchVars == <<b_file, b_pc, b_images, b_next, b_existing_hashes, b_merkle,
               b_accepted, b_outcomes, b_file_before, b_times>>

VARIABLES
    s_dna,              \* the candidate DNA of the queries
    s_T,                \* the Hamming-distance threshold of the queries
    s_existing_dnas,    \* the DNAs of the registry leaves, in leaf order
    s_records,          \* InMemoryVectorDB.records
    s_linear,           \* None, or what check_for_duplicates returned
    s_vdb               \* None, or what check_uniqueness returned

dupVars == <<s_dna, s_T, s_existing_dnas, s_records, s_linear, s_vdb>>

VARIABLES
    m_tree,         \* a MerkleTree grown by registrations
    m_manifest,     \* None, or the manifest exported from m_tree
    m_file,         \* the file save_merkle_tree wrote from m_tree
    m_other,        \* a second MerkleTree, filled by loading or importing
    m_before,       \* history: m_other before its latest operation
    m_via,          \* history: the latest operation on m_other
    m_error         \* the exception of the latest export or import, "" if none

manVars == <<m_tree, m_manifest, m_file, m_other, m_before, m_via, m_error>>

VARIABLES
    l_file,     \* content of merkle_tree.json
    l_calls     \* history: the register_image calls made, each with its outcome

serialVars == <<l_file, l_calls>>

VARIABLES
    x_image,        \* the image under extraction
    x_build,        \* the numpy generation of the installation
    x_results,      \* per scale: what its process_single_grid future holds
    x_order,        \* the scales in the order in which their futures finished
    x_out,          \* what generate_perceptual_hash returned, if it has
    x_legacy        \* what compute_dna returned, if it has

extractVars == <<x_image, x_build, x_results, x_order, x_out, x_legacy>>

VARIABLES
    c_assets,       \* CoreProtocol.assets: asset_id -> what is kept of the asset
    c_leaves,       \* CoreProtocol.merkle_leaves
    c_file,         \* registry/assets.json
    c_events        \* the register_asset calls and restarts made so far

coreVars == <<c_assets, c_leaves, c_file, c_events>>

VARIABLES
    q_request,      \* the SimilarityRequest of the last /api/v1/dna/compare call
    q_response      \* its response

compareVars == <<q_request, q_response>>

vars == <<regVars, treeVars, proofVars, apiVars, batchVars, dupVars, manVars, serialVars, extractVars, coreVars, compareVars>>

\* what the steps of one component leave alone: the other components
regFrame == <<treeVars, proofVars, apiVars, batchVars, dupVars, manVars, serialVars, extractVars, coreVars, compareVars>>
treeFrame == <<regVars, proofVars, apiVars, batchVars, dupVars, manVars, serialVars, extractVars, coreVars, compareVars>>
proofFrame == <<regVars, treeVars, apiVars, batchVars, dupVars, manVars, serialVars, extractVars, coreVars, compareVars>>
apiFrame == <<regVars, treeVars, proofVars, batchVars, dupVars, manVars, serialVars, extractVars, coreVars, compareVars>>
batchFrame == <<regVars, treeVars, proofVars, apiVars, dupVars, manVars, serialVars, extractVars, coreVars, compareVars>>
dupFrame == <<regVars, treeVars, proofVars, apiVars, batchVars, manVars, serialVars, extractVars, coreVars, compareVars>>
manFrame == <<regVars, treeVars, proofVars, apiVars, batchVars, dupVars, serialVars, extractVars, coreVars, compareVars>>
serialFrame == <<regVars, treeVars, proofVars, apiVars, batchVars, dupVars, manVars, extractVars, coreVars, compareVars>>
extractFrame == <<regVars, treeVars, proofVars, apiVars, batchVars, dupVars, manVars, serialVars, coreVars, compareVars>>
coreFrame == <<regVars, treeVars, proofVars, apiVars, batchVars, dupVars, manVars, serialVars, extractVars, compareVars>>
compareFrame == <<regVars, treeVars, proofVars, apiVars, batchVars, dupVars, manVars, serialVars, extractVars, coreVars>>

(***************************************************************************)
(* Concurrent register_image calls on one registry file.                   *)
(***************************************************************************)
\* two callers, so that two calls can overlap
Procs == {1, 2}

EmptyTree == [leaves |-> <<>>, root |-> None]
NoArgs == [image_path |-> "missing", pointer |-> None, platform_id |-> Manual]
NoCheck == [is_duplicate |-> FALSE, match_info |-> None]
NoResult == [success |-> FALSE, plagiarized |-> FALSE, error |-> "", root_hash |-> None,
             registry_size |-> 0, match |-> None]

InFlight(p) == pc[p] \notin {"idle", "returned", "raised"}

\* the registry the callers find: none yet, or one that an earlier
\* registration of image C left behind
InitialRegistry ==
    LET leaves == <<LeafData(ImageDna["C"], basename("C"), Manual, 10)>>
    IN  SavedData([leaves |-> leaves, root |-> build_tree(leaves)])

RegInit ==
    /\ file \in {AbsentFile, InitialRegistry}
    /\ pc = [p \in Procs |-> "idle"]
    /\ args = [p \in Procs |-> NoArgs]
    /\ new_dna = [p \in Procs |-> None]
    /\ merkle = [p \in Procs |-> EmptyTree]
    /\ existing_dnas = [p \in Procs |-> <<>>]
    /\ check = [p \in Procs |-> NoCheck]
    /\ result = [p \in Procs |-> NoResult]
    /\ started = 0
    /\ file_before = [p \in Procs |-> file]
    /\ interfered = [p \in Procs |-> FALSE]
    /\ wrote = [p \in Procs |-> FALSE]
    /\ epoch = [file |-> file, calls |-> <<>>]

\* history bookkeeping when caller p ends its call with the given outcome
EpochEnd(p, outcome) ==
    [epoch EXCEPT !.calls = [k \in 1..Len(@) |->
        IF @[k].proc = p /\ @[k].outcome = "running"
        THEN [@[k] EXCEPT !.outcome = outcome] ELSE @[k]]]

\* history bookkeeping when caller p writes the file
Interfere(p) == [q \in Procs |-> IF q = p THEN interfered[q] ELSE TRUE]

\* the locals of a call that has returned or raised are gone
Leave(p, outcome, res) ==
    /\ pc' = [pc EXCEPT ![p] = IF outcome = "raised" THEN "raised" ELSE "returned"]
    /\ result' = [result EXCEPT ![p] = res]
    /\ epoch' = EpochEnd(p, outcome)
    /\ args' = [args EXCEPT ![p] = NoArgs]
    /\ new_dna' = [new_dna EXCEPT ![p] = None]
    /\ merkle' = [merkle EXCEPT ![p] = EmptyTree]
    /\ existing_dnas' = [existing_dnas EXCEPT ![p] = <<>>]
    /\ check' = [check EXCEPT ![p] = NoCheck]

\* lines 113-155: entry, existence check, default pointer, compute_dna; an
\* exception of compute_dna becomes an error result
RegStart(p, image_path, pointer, platform_id) ==
    /\ ~InFlight(p)
    \* callers are interchangeable: a call that overlaps no other is caller 1's
    /\ p = 1 \/ InFlight(1)
    /\ started < MaxCalls
    /\ started' = started + 1
    /\ file_before' = [file_before EXCEPT ![p] = file]
    /\ interfered' = [interfered EXCEPT ![p] = FALSE]
    /\ wrote' = [wrote EXCEPT ![p] = FALSE]
    /\ LET a == [image_path |-> image_path,
                 pointer |-> IF pointer = None THEN Some(basename(image_path)) ELSE pointer,
                 platform_id |-> platform_id]
           outcome == IF ~path_exists(image_path) \/ compute_dna(image_path) = None
                      THEN "failed" ELSE "running"
           entry == [proc |-> p, args |-> a, outcome |-> outcome]
           error == IF ~path_exists(image_path) THEN "Image not found"
                    ELSE "Failed to compute DNA"
       IN  /\ epoch' = IF \E q \in Procs : InFlight(q)
                       THEN [epoch EXCEPT !.calls = Append(@, entry)]
                       ELSE [file |-> file, calls |-> <<entry>>]
           /\ IF outcome = "failed"
              THEN /\ pc' = [pc EXCEPT ![p] = "returned"]
                   /\ result' = [result EXCEPT ![p] = [NoResult EXCEPT !.error = error]]
                   /\ args' = [args EXCEPT ![p] = NoArgs]
                   /\ new_dna' = [new_dna EXCEPT ![p] = None]
              ELSE /\ pc' = [pc EXCEPT ![p] = "load"]
                   /\ result' = [result EXCEPT ![p] = NoResult]
                   /\ args' = [args EXCEPT ![p] = a]
                   /\ new_dna' = [new_dna EXCEPT ![p] = compute_dna(image_path)]
    /\ UNCHANGED <<file, merkle, existing_dnas, check>>
    /\ UNCHANGED regFrame

\* register_image appending and saving before it looks at the verdict
RegLoadSavingFirst(p, timestamp) ==
    /\ pc[p] = "load"
    /\ file.kind # "partial"
    /\ LET loaded == load_merkle_tree(file)
           c == check_for_duplicates(new_dna[p][1], loaded.dna_hashes,
                                     SimilarityThresholdNum, SimilarityThresholdDen)
           added == add_leaf(loaded.merkle, new_dna[p][1], args[p].pointer[1],
                             args[p].platform_id, timestamp)
           built == [added EXCEPT !.root = build_tree(added.leaves)]
       IN  IF c.is_duplicate
           THEN /\ file' = SavedData(built)
                /\ Leave(p, "rejected",
                         [NoResult EXCEPT !.plagiarized = TRUE, !.match = c.match_info])
           ELSE /\ merkle' = [merkle EXCEPT ![p] = built]
                /\ existing_dnas' = [existing_dnas EXCEPT ![p] = loaded.dna_hashes]
                /\ check' = [check EXCEPT ![p] = c]
                /\ pc' = [pc EXCEPT ![p] = "save"]
                /\ UNCHANGED <<file, args, new_dna, result, epoch>>
    /\ UNCHANGED <<started, file_before, interfered, wrote>>
    /\ UNCHANGED regFrame

\* lines 157-195 up to the next access to the file: load_merkle_tree (a
\* missing file gives an empty tree, an unparsable one makes json.load raise
\* out of register_image), the duplicate check with its plagiarism return,
\* timestamp = int(time.time()), add_leaf, build_tree
RegLoad(p, timestamp) ==
    /\ pc[p] = "load"
    /\ IF file.kind = "partial"
       THEN Leave(p, "raised", NoResult)
       ELSE LET loaded == load_merkle_tree(file)
                c == check_for_duplicates(new_dna[p][1], loaded.dna_hashes,
                                          SimilarityThresholdNum, SimilarityThresholdDen)
                added == add_leaf(loaded.merkle, new_dna[p][1], args[p].pointer[1],
                                  args[p].platform_id, timestamp)
            IN  IF c.is_duplicate
                THEN Leave(p, "rejected",
                           [NoResult EXCEPT !.plagiarized = TRUE, !.match = c.match_info])
                ELSE /\ merkle' = [merkle EXCEPT ![p] =
                                      [added EXCEPT !.root = build_tree(added.leaves)]]
                     /\ existing_dnas' = [existing_dnas EXCEPT ![p] = loaded.dna_hashes]
                     /\ check' = [check EXCEPT ![p] = c]
                     /\ pc' = [pc EXCEPT ![p] = "save"]
                     /\ UNCHANGED <<args, new_dna, result, epoch>>
    /\ UNCHANGED <<file, started, file_before, interfered, wrote>>
    /\ UNCHANGED regFrame

\* save_merkle_tree line 60: open(filename, 'w') truncates the file
RegSaveOpen(p) ==
    /\ pc[p] = "save"
    /\ file' = PartialFile
    /\ wrote' = [wrote EXCEPT ![p] = TRUE]
    /\ interfered' = Interfere(p)
    /\ pc' = [pc EXCEPT ![p] = "dump"]
    /\ UNCHANGED <<args, new_dna, merkle, existing_dnas, check, result, started,
                   file_before, epoch>>
    /\ UNCHANGED regFrame

\* save_merkle_tree line 60: open fails (no permission); nothing is written
\* and the exception leaves the call
RegSaveOpenFails(p) ==
    /\ pc[p] = "save"
    /\ Leave(p, "raised", NoResult)
    /\ UNCHANGED <<file, started, file_before, interfered, wrote>>
    /\ UNCHANGED regFrame

\* save_merkle_tree line 61 and lines 202-217: json.dump and close write the
\* text from offset 0.  Text another caller wrote after this caller's open
\* is overwritten; what is left of a longer text makes the file unparsable.
RegSaveDump(p) ==
    /\ pc[p] = "dump"
    /\ LET data == SavedData(merkle[p])
       IN  file' = IF file.kind = "json" /\ JsonLen(file) > JsonLen(data)
                   THEN PartialFile ELSE data
    /\ interfered' = Interfere(p)
    /\ Leave(p, "accepted",
             [NoResult EXCEPT !.success = TRUE,
                              !.root_hash = get_root(merkle[p].root),
                              !.registry_size = Len(merkle[p].leaves),
                              !.match = check[p].match_info])
    /\ UNCHANGED <<started, file_before, wrote>>
    /\ UNCHANGED regFrame

\* save_merkle_tree line 61: the write fails (disk full, I/O error, the
\* process is killed); the exception leaves register_image with whatever
\* the file holds: nothing of this caller's text, or an incomplete text
RegSaveDumpFails(p) ==
    /\ pc[p] = "dump"
    /\ \E garbled \in BOOLEAN :
          file' = IF garbled \/ file.kind # "json" THEN PartialFile ELSE file
    /\ interfered' = Interfere(p)
    /\ Leave(p, "raised", NoResult)
    /\ UNCHANGED <<started, file_before, wrote>>
    /\ UNCHANGED regFrame

RegNext ==
    \/ \E p \in Procs, image_path \in Images, pointer \in Pointers, platform_id \in Platforms :
          RegStart(p, image_path, pointer, platform_id)
    \/ \E p \in Procs, timestamp \in Times : RegLoad(p, timestamp)
    \/ \E p \in Procs : RegSaveOpen(p)
    \/ \E p \in Procs : RegSaveOpenFails(p)
    \/ \E p \in Procs : RegSaveDump(p)
    \/ \E p \in Procs : RegSaveDumpFails(p)

(***************************************************************************)
(* Properties of register_image.                                           *)
(***************************************************************************)
Finished(p) == pc[p] \in {"returned", "raised"}
Quiescent == \A p \in Procs : ~InFlight(p)

\* the registry of file f is that of file b with exactly one more leaf and
\* the root of the new leaf sequence
GrewByOne(b, f) ==
    /\ b.kind # "partial"
    /\ f.kind = "json"
    /\ Len(f.leaves) = Len(b.leaves) + 1
    /\ SubSeq(f.leaves, 1, Len(b.leaves)) = b.leaves
    /\ f.leaf_count = Len(f.leaves)
    /\ f.root_hash = get_root(build_tree(FileLeaves(f)))

\* C1: whenever a register call has returned or raised, and no other caller
\* wrote the registry meanwhile, the registry either grew by exactly one
\* leaf with the matching root or is exactly what it was before the call.
C1_RegisterAtomic ==
    \A p \in Procs :
        (Finished(p) /\ ~interfered[p]) =>
            (file = file_before[p] \/ GrewByOne(file_before[p], file))

\* position of the last "|" of a leaf preimage
LastBar(leaf) == CHOOSE i \in 1..Len(leaf) :
                    leaf[i] = "|" /\ \A j \in (i + 1)..Len(leaf) : leaf[j] # "|"

\* a leaf preimage without its timestamp field
StripTime(leaf) == SubSeq(leaf, 1, LastBar(leaf) - 1)

LeafKey(dna_hex, pointer, platform_id) ==
    dna_hex \o <<"|">> \o pointer \o <<"|">> \o platform_id

RECURSIVE SerialRun(_, _)
\* the leaves (without timestamps) and the outcomes of running the given
\* calls one after the other on a registry holding the given leaves
SerialRun(keys, calls) ==
    IF calls = <<>> THEN [keys |-> keys, outcomes |-> <<>>]
    ELSE LET a == Head(calls).args
             dna == compute_dna(a.image_path)
             dnas == [i \in 1..Len(keys) |-> SplitFirst(keys[i])]
             outcome == IF ~path_exists(a.image_path) \/ dna = None THEN "failed"
                        ELSE IF check_for_duplicates(dna[1], dnas, SimilarityThresholdNum,
                                                     SimilarityThresholdDen).is_duplicate
                        THEN "rejected" ELSE "accepted"
             next == IF outcome = "accepted"
                     THEN Append(keys, LeafKey(dna[1], a.pointer[1], a.platform_id))
                     ELSE keys
             rest == SerialRun(next, Tail(calls))
         IN  [keys |-> rest.keys, outcomes |-> <<outcome>> \o rest.outcomes]

FileKeys(f) == [i \in 1..Len(f.leaves) |-> StripTime(FromHex(f.leaves[i]))]

\* the registry and the two outcomes are those of the serial order `order'
SerialOrderMatches(order) ==
    LET run == SerialRun(FileKeys(epoch.file),
                         <<epoch.calls[order[1]], epoch.calls[order[2]]>>)
    IN  /\ file.kind # "partial"
        /\ FileKeys(file) = run.keys
        /\ \A k \in 1..2 : epoch.calls[order[k]].outcome = run.outcomes[k]

\* two calls overlapped and both came back without an I/O error
TwoOverlappingCallsDone ==
    /\ Quiescent
    /\ Len(epoch.calls) = 2
    /\ epoch.file.kind # "partial"
    /\ \A k \in 1..2 : epoch.calls[k].outcome \in {"accepted", "rejected", "failed"}

\* C2: when two overlapping register calls have both returned, the registry
\* and the two outcomes are those of running the two calls one after the
\* other in one of the two orders.
C2_WritesSerialized ==
    TwoOverlappingCallsDone => (SerialOrderMatches(<<1, 2>>) \/ SerialOrderMatches(<<2, 1>>))

\* every proof of the tree verifies its leaf against the given root
ProofsVerify(leaves, root, root_hash) ==
    \A i \in 0..(Len(leaves) - 1) :
        LET p == get_proof(leaves, root, i)
        IN  p.error = "" /\ verify_proof(leaves[i + 1], p.proof, root_hash)

\* C4: after any sequence of accepted registrations, for every leaf index
\* the generated proof verifies the leaf against the current root, both in
\* the tree register_image has just rebuilt and in the saved registry.
C4_ProofSoundness ==
    /\ \A p \in Procs :
          pc[p] \in {"save", "dump"} =>
              ProofsVerify(merkle[p].leaves, merkle[p].root, get_root(merkle[p].root))
    /\ file.kind = "json" =>
          ProofsVerify(FileLeaves(file), load_merkle_tree(file).merkle.root, file.root_hash)

C4_Witness ==
    /\ file.kind = "json"
    /\ Len(file.leaves) = 3
    /\ \E p \in Procs : pc[p] = "returned" /\ result[p].success

\* C6: with the default threshold a DNA at distance exactly 26 from a
\* registered leaf is rejected (it never gets to the append), and a DNA
\* at distance 27 or more from every registered leaf is accepted (a
\* rejection names a leaf at distance 26 or less).
C6_ThresholdBoundary ==
    \A p \in Procs :
        /\ pc[p] \in {"save", "dump"} =>
              \A i \in 1..Len(existing_dnas[p]) :
                  hamming_distance(new_dna[p][1], existing_dnas[p][i]) # DefaultThresholdBits
        /\ (pc[p] = "returned" /\ result[p].plagiarized) =>
              result[p].match[1].hamming_distance <= DefaultThresholdBits

\* C7: a register call that returned Rejected never opened the registry for
\* writing, and the saved registry is exactly the one from before the call.
C7_RejectedChangesNothing ==
    \A p \in Procs :
        (pc[p] = "returned" /\ result[p].plagiarized) =>
            /\ ~wrote[p]
            /\ ~interfered[p] => file = file_before[p]

C7_Witness ==
    \E p \in Procs :
        /\ pc[p] = "returned" /\ result[p].plagiarized /\ ~interfered[p]
        /\ result[p].match[1].hamming_distance = 25
        /\ file.kind = "json"

\* C8: when saving the newly appended leaf failed, the call has raised and
\* the registry is back to what it was before the call.
C8_FailedSaveRolledBack ==
    \A p \in Procs :
        (pc[p] = "raised" /\ wrote[p] /\ ~interfered[p]) => file = file_before[p]

(***************************************************************************)
(* A MerkleTree object shared by a writer and readers (merkle.py).         *)
(***************************************************************************)
\* arguments of add_leaf; a timestamp of None makes add_leaf read the clock
TreeInputs ==
    {[dna_hex |-> ImageDna["A"], pointer |-> <<"p">>, platform_id |-> Manual,
      timestamp |-> None],
     [dna_hex |-> ImageDna["B"], pointer |-> <<"p", "|", "q">>, platform_id |-> Manual,
      timestamp |-> Some(9)]}

NotObserved == [called |-> FALSE, leaves |-> <<>>, root |-> None]

TreeInit ==
    /\ tree = EmptyTree
    /\ observed = NotObserved

\* MerkleTree.add_leaf (lines 69-90): the leaf is appended, self.root stays
TreeAddLeaf(input, now) ==
    /\ Len(tree.leaves) < MaxLeaves
    /\ tree' = add_leaf(tree, input.dna_hex, input.pointer, input.platform_id,
                        IF input.timestamp = None THEN now ELSE input.timestamp[1])
    /\ UNCHANGED observed
    /\ UNCHANGED treeFrame

\* MerkleTree.build_tree (lines 92-120)
TreeBuild ==
    /\ tree' = [tree EXCEPT !.root = build_tree(tree.leaves)]
    /\ UNCHANGED observed
    /\ UNCHANGED treeFrame

\* a reader: get_root() together with the leaves, as save_merkle_tree and
\* export_manifest read them
TreeRead ==
    /\ observed' = [called |-> TRUE, leaves |-> tree.leaves, root |-> get_root(tree.root)]
    /\ UNCHANGED tree
    /\ UNCHANGED treeFrame

TreeNext ==
    \/ \E input \in TreeInputs, now \in Times : TreeAddLeaf(input, now)
    \/ TreeBuild
    \/ TreeRead

\* MerkleTree.import_manifest (lines 257-261) on a dictionary that has no
\* 'leaves' entry: self.leaves and self.leaf_map are emptied, then
\* manifest['leaves'] raises KeyError and self.root stays what it was
TreeImportMalformed ==
    /\ tree' = [leaves |-> <<>>, root |-> tree.root]
    /\ UNCHANGED observed
    /\ UNCHANGED treeFrame

\* the same object, when manifests that lack entries are imported too
TreeImportNext ==
    \/ \E input \in TreeInputs, now \in Times : TreeAddLeaf(input, now)
    \/ TreeBuild
    \/ TreeRead
    \/ TreeImportMalformed

\* C3: at every moment at which a reader can run, the root of the tree is the
\* Merkle root of exactly the leaves of the tree.
C3_NoHalfAppend ==
    get_root(tree.root) = get_root(build_tree(tree.leaves))

\* C10: after any sequence of append and root calls, what root() returned is
\* the Merkle root of the leaf sequence the tree held at that call.
C10_RootIsCurrent ==
    observed.called => observed.root = get_root(build_tree(observed.leaves))

(***************************************************************************)
(* Proof generation and verification on a built registry, with one         *)
(* tampering of the leaf, the proof path or the root before verifying.     *)
(***************************************************************************)
MaxProofLeaves == 5

\* the k-th leaf of the registries: images 27 bits apart, which the
\* duplicate check accepts one after the other
PoolLeaf(k) ==
    LeafData(DnaWithOnes(27 * (k - 1)),
             IF k = 2 THEN <<"p", "|", "q">> ELSE <<HexChars[k + 1]>>,
             Manual, 1000 + k)

\* registries of 1..MaxProofLeaves registered leaves, and the registry two
\* racing registrations of one image leave behind
ProofRegistries ==
    {[i \in 1..n |-> PoolLeaf(i)] : n \in 1..MaxProofLeaves}
        \cup {<<PoolLeaf(1), PoolLeaf(2), PoolLeaf(2)>>}

ProofIdle ==
    /\ p_index = -1
    /\ vleaf = <<>>
    /\ vproof = <<>>
    /\ vroot = None
    /\ vkind = ""
    /\ vat = 0
    /\ vresult = None

ProofInit ==
    /\ p_leaves \in ProofRegistries
    /\ ProofIdle

\* the digests of the nodes of all levels of the tree over the leaves
RECURSIVE LevelHashes(_)
LevelHashes(nodes) ==
    {nodes[i] : i \in 1..Len(nodes)}
        \cup (IF Len(nodes) <= 1 THEN {} ELSE LevelHashes(NextLevel(nodes)))

\* digests a forger can put into a proof or give as the root: every node of
\* the tree and a digest that is not in the tree
ForgedHashes == LevelHashes(LeafNodes(p_leaves)) \cup {blake3_hash(<<"x", "x", "x">>)}

\* byte strings a forger can give as the leaf: the other leaves, a leaf that
\* is not in the tree, and the 64 bytes of two adjacent leaf digests
ForgedLeaves ==
    {p_leaves[i] : i \in 1..Len(p_leaves)}
        \cup {PoolLeaf(MaxProofLeaves + 1)}
        \cup {<<blake3_hash(p_leaves[i]), blake3_hash(p_leaves[i + 1])>> :
                 i \in 1..(Len(p_leaves) - 1)}

\* get_proof(leaf_index) on the built tree, with the leaf and get_root()
ProofGet(leaf_index) ==
    /\ vkind = ""
    /\ LET root == build_tree(p_leaves)
           p == get_proof(p_leaves, root, leaf_index)
       IN  /\ p.error = ""
           /\ p_index' = leaf_index
           /\ vleaf' = p_leaves[leaf_index + 1]
           /\ vproof' = p.proof
           /\ vroot' = get_root(root)
    /\ vkind' = "genuine"
    /\ UNCHANGED <<p_leaves, vat, vresult>>
    /\ UNCHANGED proofFrame

TamperLeaf ==
    /\ vkind = "genuine" /\ vresult = None
    /\ \E leaf_data \in ForgedLeaves :
          /\ leaf_data # vleaf
          /\ vleaf' = leaf_data
    /\ vkind' = "leaf"
    /\ UNCHANGED <<p_leaves, p_index, vproof, vroot, vat, vresult>>
    /\ UNCHANGED proofFrame

TamperSibling(k) ==
    /\ vkind = "genuine" /\ vresult = None
    /\ k \in 1..Len(vproof)
    /\ \E h \in ForgedHashes :
          /\ HexOf(h) # vproof[k].hash
          /\ vproof' = [vproof EXCEPT ![k].hash = HexOf(h)]
    /\ vkind' = "sibling"
    /\ vat' = k
    /\ UNCHANGED <<p_leaves, p_index, vleaf, vroot, vresult>>
    /\ UNCHANGED proofFrame

TamperSide(k) ==
    /\ vkind = "genuine" /\ vresult = None
    /\ k \in 1..Len(vproof)
    /\ vproof' = [vproof EXCEPT ![k].position = IF @ = "left" THEN "right" ELSE "left"]
    /\ vkind' = "side"
    /\ vat' = k
    /\ UNCHANGED <<p_leaves, p_index, vleaf, vroot, vresult>>
    /\ UNCHANGED proofFrame

TamperDrop(k) ==
    /\ vkind = "genuine" /\ vresult = None
    /\ k \in 1..Len(vproof)
    /\ vproof' = SubSeq(vproof, 1, k - 1) \o SubSeq(vproof, k + 1, Len(vproof))
    /\ vkind' = "count"
    /\ vat' = k
    /\ UNCHANGED <<p_leaves, p_index, vleaf, vroot, vresult>>
    /\ UNCHANGED proofFrame

TamperInsert(k, position) ==
    /\ vkind = "genuine" /\ vresult = None
    /\ k \in 1..(Len(vproof) + 1)
    /\ \E h \in ForgedHashes :
          vproof' = SubSeq(vproof, 1, k - 1) \o <<[hash |-> HexOf(h), position |-> position]>>
                       \o SubSeq(vproof, k, Len(vproof))
    /\ vkind' = "count"
    /\ vat' = k
    /\ UNCHANGED <<p_leaves, p_index, vleaf, vroot, vresult>>
    /\ UNCHANGED proofFrame

TamperRoot ==
    /\ vkind = "genuine" /\ vresult = None
    /\ \E root_hash \in {None} \cup {Some(HexOf(h)) : h \in ForgedHashes} :
          /\ root_hash # vroot
          /\ vroot' = root_hash
    /\ vkind' = "root"
    /\ UNCHANGED <<p_leaves, p_index, vleaf, vproof, vat, vresult>>
    /\ UNCHANGED proofFrame

\* verify_proof(leaf_data, proof, root_hash)
ProofVerify ==
    /\ vkind # "" /\ vresult = None
    /\ vresult' = Some(verify_proof(vleaf, vproof, vroot))
    /\ UNCHANGED <<p_leaves, p_index, vleaf, vproof, vroot, vkind, vat>>
    /\ UNCHANGED proofFrame

ProofNext ==
    \/ \E leaf_index \in 0..(MaxProofLeaves - 1) : ProofGet(leaf_index)
    \/ TamperLeaf
    \/ \E k \in 1..MaxProofLeaves : TamperSibling(k)
    \/ \E k \in 1..MaxProofLeaves : TamperSide(k)
    \/ \E k \in 1..MaxProofLeaves : TamperDrop(k)
    \/ \E k \in 1..(MaxProofLeaves + 1), position \in {"left", "right"} : TamperInsert(k, position)
    \/ TamperRoot
    \/ ProofVerify

(***************************************************************************)
(* api_server_complete.py: register_image_endpoint on state.registry, a    *)
(* dictionary keyed by image_id that keeps insertion order.                *)
(***************************************************************************)
ImageIds == {<<"x">>, <<"y">>}
ApiTimes == {10, 11}

NoResponse == [status |-> 0, success |-> FALSE, plagiarized |-> FALSE,
               root_hash |-> None, match |-> None, dna_hex |-> None]

ApiInit ==
    /\ api_registry = <<>>
    /\ api_response = NoResponse

\* the leaves of the tree the endpoint builds from state.registry.items()
ApiLeaves(registry) ==
    [i \in 1..Len(registry) |->
        LeafData(registry[i].dna_hex, registry[i].image_id, registry[i].platform_id,
                 registry[i].timestamp)]

\* position of the first registered entry whose similarity reaches the
\* threshold, 0 if the loop ends without a break
RECURSIVE FirstMatch(_, _, _, _, _)
FirstMatch(registry, dna_hex, num, den, idx) ==
    IF idx > Len(registry) THEN 0
    ELSE IF SimAtLeast(dna_similarity(dna_hex, registry[idx].dna_hex), num, den) THEN idx
    ELSE FirstMatch(registry, dna_hex, num, den, idx + 1)

\* state.registry[image_id] = entry: an existing key keeps its place and
\* takes the new value, a new key goes to the end
DictSet(registry, entry) ==
    IF \E i \in 1..Len(registry) : registry[i].image_id = entry.image_id
    THEN [i \in 1..Len(registry) |->
             IF registry[i].image_id = entry.image_id THEN entry ELSE registry[i]]
    ELSE Append(registry, entry)

\* register_image_endpoint(request); now is int(time.time())
ApiRegister(image_path, image_id, platform_id, num, den, now) ==
    /\ UNCHANGED apiFrame
    /\ IF ~path_exists(image_path) \/ compute_dna(image_path) = None
       THEN /\ api_response' = [NoResponse EXCEPT !.status = 500]
            /\ UNCHANGED api_registry
       ELSE LET dna_hex == compute_dna(image_path)[1]
                m == FirstMatch(api_registry, dna_hex, num, den, 1)
            IN  IF m = 0
                THEN /\ api_registry' = DictSet(api_registry,
                                                [image_id |-> image_id, dna_hex |-> dna_hex,
                                                 platform_id |-> platform_id, timestamp |-> now])
                     /\ api_response' = [status |-> 200, success |-> TRUE, plagiarized |-> FALSE,
                                         root_hash |-> get_root(build_tree(ApiLeaves(api_registry'))),
                                         match |-> None, dna_hex |-> Some(dna_hex)]
                ELSE /\ api_response' =
                           [status |-> 200, success |-> FALSE, plagiarized |-> TRUE,
                            root_hash |-> None,
                            match |-> Some([image_id |-> api_registry[m].image_id,
                                            similarity |-> dna_similarity(dna_hex, api_registry[m].dna_hex),
                                            platform_id |-> api_registry[m].platform_id,
                                            registered_at |-> api_registry[m].timestamp]),
                            dna_hex |-> Some(dna_hex)]
                     /\ UNCHANGED api_registry

ApiNext ==
    \E image_path \in Images, image_id \in ImageIds, platform_id \in Platforms, now \in ApiTimes :
        ApiRegister(image_path, image_id, platform_id,
                    SimilarityThresholdNum, SimilarityThresholdDen, now)

(***************************************************************************)
(* batch_register.py: process_folder on the registry file, and the same    *)
(* images handed to register_image one call after the other.               *)
(***************************************************************************)
MaxBatch == 3

Batch == <<"b", "a", "t", "c", "h">>

\* the image files a folder can hold, in the order os.listdir gives them
FolderImages == ValidImages \cup {"corrupt"}
Folders == UNION {[1..n -> FolderImages] : n \in 0..MaxBatch}

\* load_existing_hashes: the set of the first fields of the saved leaves
load_existing_hashes(f) ==
    {SplitFirst(FileLeaves(f)[i]) : i \in 1..Len(f.leaves)}

BatchIdle ==
    /\ b_pc = "idle"
    /\ b_images = <<>>
    /\ b_next = 0
    /\ b_existing_hashes = {}
    /\ b_merkle = EmptyTree
    /\ b_accepted = 0
    /\ b_outcomes = <<>>
    /\ b_times = <<>>

BatchUnused == b_file = AbsentFile /\ b_file_before = AbsentFile /\ BatchIdle

BatchInit ==
    /\ b_file \in {AbsentFile, InitialRegistry}
    /\ b_file_before = b_file
    /\ BatchIdle

\* lines 74-95: the images of the folder, then the registry is loaded
BatchStart(folder) ==
    /\ b_pc = "idle"
    /\ b_images' = folder
    /\ IF folder = <<>>
       THEN /\ b_pc' = "done"
            /\ UNCHANGED <<b_next, b_existing_hashes, b_merkle>>
       ELSE /\ b_pc' = "loop"
            /\ b_next' = 1
            /\ b_existing_hashes' = load_existing_hashes(b_file)
            /\ b_merkle' = load_merkle_tree(b_file).merkle
    /\ b_file_before' = b_file
    /\ UNCHANGED <<b_file, b_accepted, b_outcomes, b_times>>
    /\ UNCHANGED batchFrame

\* lines 101-121: one pass of the for loop
BatchItem(timestamp) ==
    /\ b_pc = "loop"
    /\ b_next <= Len(b_images)
    /\ LET img_path == b_images[b_next]
           dna == compute_dna(img_path)
       IN  IF dna = None
           THEN /\ b_outcomes' = Append(b_outcomes, "ERROR")
                /\ UNCHANGED <<b_merkle, b_existing_hashes, b_accepted>>
           ELSE IF dna[1] \in b_existing_hashes
           THEN /\ b_outcomes' = Append(b_outcomes, "REJECT")
                /\ UNCHANGED <<b_merkle, b_existing_hashes, b_accepted>>
           ELSE /\ b_merkle' = add_leaf(b_merkle, dna[1], basename(img_path), Batch, timestamp)
                /\ b_existing_hashes' = b_existing_hashes \cup {dna[1]}
                /\ b_accepted' = b_accepted + 1
                /\ b_outcomes' = Append(b_outcomes, "ACCEPT")
    /\ b_next' = b_next + 1
    /\ b_times' = Append(b_times, timestamp)
    /\ UNCHANGED <<b_file, b_pc, b_images, b_file_before>>
    /\ UNCHANGED batchFrame

\* lines 123-132: the tree is rebuilt and saved if anything was accepted
BatchFinish ==
    /\ b_pc = "loop"
    /\ b_next > Len(b_images)
    /\ IF b_accepted > 0
       THEN /\ b_merkle' = [b_merkle EXCEPT !.root = build_tree(b_merkle.leaves)]
            /\ b_file' = SavedData(b_merkle')
       ELSE UNCHANGED <<b_file, b_merkle>>
    /\ b_pc' = "done"
    /\ UNCHANGED <<b_images, b_next, b_existing_hashes, b_accepted, b_outcomes,
                   b_file_before, b_times>>
    /\ UNCHANGED batchFrame

BatchNext ==
    \/ \E folder \in Folders : BatchStart(folder)
    \/ \E timestamp \in Times : BatchItem(timestamp)
    \/ BatchFinish

\* register_image run alone from entry to return, no step failing: the file
\* it leaves and the kind of result it returns
register_image(f, image_path, pointer, platform_id, num, den, timestamp) ==
    IF ~path_exists(image_path) \/ compute_dna(image_path) = None
    THEN [file |-> f, outcome |-> "failed"]
    ELSE LET dna == compute_dna(image_path)[1]
             loaded == load_merkle_tree(f)
             c == check_for_duplicates(dna, loaded.dna_hashes, num, den)
             added == add_leaf(loaded.merkle, dna, pointer, platform_id, timestamp)
         IN  IF c.is_duplicate
             THEN [file |-> f, outcome |-> "rejected"]
             ELSE [file |-> SavedData([added EXCEPT !.root = build_tree(added.leaves)]),
                   outcome |-> "accepted"]

RECURSIVE RegisterEach(_, _, _, _)
\* register_image(img, pointer = the file name, platform_id = 'batch') for
\* each image in input order, the clock reading times[i] at image i: the
\* final file and the outcomes
RegisterEach(f, images, times, outcomes) ==
    IF images = <<>> THEN [file |-> f, outcomes |-> outcomes]
    ELSE LET r == register_image(f, Head(images), basename(Head(images)), Batch,
                                 SimilarityThresholdNum, SimilarityThresholdDen, Head(times))
         IN  RegisterEach(r.file, Tail(images), Tail(times), Append(outcomes, r.outcome))

(***************************************************************************)
(* The duplicate check of register_image.py and the similarity index of    *)
(* vector_db.py (InMemoryVectorDB) on the same DNAs.                       *)
(***************************************************************************)
MaxRegistry == 3

\* DNAs whose pairwise distances are the differences of these bit counts
QueryOnes == {0, 20, 26, 52, 256}
QueryDna == [ones \in QueryOnes |-> DnaWithOnes(ones)]
QueryDnas == {QueryDna[ones] : ones \in QueryOnes}

\* Hamming-distance thresholds; check_for_duplicates takes the threshold as
\* the similarity 1 - T/256, a fraction that binary floating point holds
\* exactly
QueryThresholds == {25, 26}
ThresholdNum(T) == DnaBits - T
ThresholdDen == DnaBits

DupInit ==
    /\ s_dna \in QueryDnas
    /\ s_T \in QueryThresholds
    /\ s_existing_dnas = <<>>
    /\ s_records = <<>>
    /\ s_linear = None
    /\ s_vdb = None

DupUnused ==
    /\ s_dna = QueryDna[0]
    /\ s_T = DefaultThresholdBits
    /\ s_existing_dnas = <<>>
    /\ s_records = <<>>
    /\ s_linear = None
    /\ s_vdb = None

\* InMemoryVectorDB.insert_dna: the record is appended; the pointer is the
\* leaf index of the DNA
insert_dna(records, dna_hex, pointer) ==
    Append(records, [pointer |-> pointer, dna_hex |-> dna_hex])

RECURSIVE InsertByDistance(_, _)
\* list.sort(key = hamming_distance) is stable: a result goes behind the
\* results that are as close as it is
InsertByDistance(sorted, r) ==
    IF sorted = <<>> THEN <<r>>
    ELSE IF Head(sorted).hamming_distance <= r.hamming_distance
    THEN <<Head(sorted)>> \o InsertByDistance(Tail(sorted), r)
    ELSE <<r>> \o sorted

RECURSIVE SortByDistance(_)
SortByDistance(results) ==
    IF results = <<>> THEN <<>>
    ELSE InsertByDistance(SortByDistance(SubSeq(results, 1, Len(results) - 1)),
                          results[Len(results)])

\* InMemoryVectorDB.query_similar
query_similar(records, dna_hex, threshold, limit) ==
    LET withDistance == [i \in 1..Len(records) |->
                            [pointer |-> records[i].pointer,
                             dna_hex |-> records[i].dna_hex,
                             hamming_distance |-> hamming_distance(dna_hex, records[i].dna_hex)]]
        results == SelectSeq(withDistance, LAMBDA r : r.hamming_distance < threshold)
        sorted == SortByDistance(results)
    IN  SubSeq(sorted, 1, Min(limit, Len(sorted)))

\* InMemoryVectorDB.check_uniqueness: (is_unique, duplicates)
check_uniqueness(records, dna_hex, threshold) ==
    LET candidates == query_similar(records, dna_hex, threshold + 7, 10)
        duplicates == SelectSeq(candidates, LAMBDA c : c.hamming_distance <= threshold)
    IN  [is_unique |-> Len(duplicates) = 0, duplicates |-> duplicates]

\* a DNA is registered: a leaf of the registry and a record of the index
DupInsert(dna_hex) ==
    /\ Len(s_existing_dnas) < MaxRegistry
    /\ s_existing_dnas' = Append(s_existing_dnas, dna_hex)
    /\ s_records' = insert_dna(s_records, dna_hex, Len(s_existing_dnas))
    /\ s_linear' = None
    /\ s_vdb' = None
    /\ UNCHANGED <<s_dna, s_T>>
    /\ UNCHANGED dupFrame

\* check_for_duplicates(new_dna, existing_dnas, threshold)
DupLinear ==
    /\ s_linear = None
    /\ s_linear' = Some(check_for_duplicates(s_dna, s_existing_dnas,
                                             ThresholdNum(s_T), ThresholdDen))
    /\ UNCHANGED <<s_dna, s_T, s_existing_dnas, s_records, s_vdb>>
    /\ UNCHANGED dupFrame

\* InMemoryVectorDB.check_uniqueness(dna_hex, threshold)
DupIndexed ==
    /\ s_vdb = None
    /\ s_vdb' = Some(check_uniqueness(s_records, s_dna, s_T))
    /\ UNCHANGED <<s_dna, s_T, s_existing_dnas, s_records, s_linear>>
    /\ UNCHANGED dupFrame

DupNext ==
    \/ \E dna_hex \in QueryDnas : DupInsert(dna_hex)
    \/ DupLinear
    \/ DupIndexed

(***************************************************************************)
(* merkle.py: export_manifest and import_manifest, next to saving and      *)
(* loading the registry file, on trees with the same leaves.               *)
(***************************************************************************)
RECURSIVE SplitParts(_)
\* s.split('|')
SplitParts(s) ==
    IF \A i \in 1..Len(s) : s[i] # "|" THEN <<s>>
    ELSE <<SplitFirst(s)>> \o SplitParts(SubSeq(s, Len(SplitFirst(s)) + 2, Len(s)))

DecimalChars == {"0", "1", "2", "3", "4", "5", "6", "7", "8", "9"}
IsDecimal(s) == s # <<>> /\ \A i \in 1..Len(s) : s[i] \in DecimalChars

RECURSIVE IntOf(_)
\* int(s) for a string of decimal digits
IntOf(s) ==
    IF Len(s) = 1 THEN HexVal(s[1])
    ELSE 10 * IntOf(SubSeq(s, 1, Len(s) - 1)) + HexVal(s[Len(s)])

\* arguments of the registrations that grow the tree
ManInputs ==
    {[dna_hex |-> ImageDna["A"], pointer |-> <<"p">>, platform_id |-> Manual],
     [dna_hex |-> ImageDna["B"], pointer |-> <<"p", "|", "q">>, platform_id |-> Manual],
     [dna_hex |-> ImageDna["C"], pointer |-> <<"r">>, platform_id |-> Manual]}

\* MerkleTree.export_manifest: "ValueError" for a tree that is not built and
\* for a fourth field that int() does not take, else the manifest
export_manifest(t) ==
    LET parts == [i \in 1..Len(t.leaves) |-> SplitParts(t.leaves[i])]
    IN  IF t.root = None THEN [error |-> "ValueError", manifest |-> None]
        ELSE IF \E i \in 1..Len(parts) : Len(parts[i]) < 4
        THEN [error |-> "IndexError", manifest |-> None]
        ELSE IF \E i \in 1..Len(parts) : ~IsDecimal(parts[i][4])
        THEN [error |-> "ValueError", manifest |-> None]
        ELSE [error |-> "",
              manifest |-> Some(
                  [root |-> get_root(t.root),
                   total_leaves |-> Len(t.leaves),
                   leaves |-> [i \in 1..Len(parts) |->
                                  [index |-> i - 1,
                                   dna_hex |-> parts[i][1],
                                   pointer |-> parts[i][2],
                                   platform_id |-> parts[i][3],
                                   timestamp |-> IntOf(parts[i][4])]],
                   proofs |-> [i \in 1..Len(parts) |->
                                  get_proof(t.leaves, t.root, i - 1).proof]])]

\* MerkleTree.import_manifest: the tree it leaves and the exception it raises
import_manifest(manifest) ==
    LET leaves == [i \in 1..Len(manifest.leaves) |->
                      LeafData(manifest.leaves[i].dna_hex, manifest.leaves[i].pointer,
                               manifest.leaves[i].platform_id, manifest.leaves[i].timestamp)]
        root == build_tree(leaves)
    IN  [tree |-> [leaves |-> leaves, root |-> root],
         error |-> IF get_root(root) # manifest.root THEN "ValueError" ELSE ""]

\* a root that is not the root of the manifest's leaves
WrongRoot == Some(HexOf(blake3_hash(<<"x", "x", "x">>)))

ManInit ==
    /\ m_tree = EmptyTree
    /\ m_manifest = None
    /\ m_file = AbsentFile
    /\ m_other = EmptyTree
    /\ m_before = EmptyTree
    /\ m_via = ""
    /\ m_error = ""

\* register_image lines 189-195: add_leaf and build_tree
ManAppend(input, timestamp) ==
    /\ Len(m_tree.leaves) < MaxLeaves
    /\ m_manifest = None /\ m_file = AbsentFile
    /\ LET added == add_leaf(m_tree, input.dna_hex, input.pointer, input.platform_id,
                             timestamp)
       IN  m_tree' = [added EXCEPT !.root = build_tree(added.leaves)]
    /\ UNCHANGED <<m_manifest, m_file, m_other, m_before, m_via, m_error>>
    /\ UNCHANGED manFrame

\* manifest = m_tree.export_manifest()
ManExport ==
    /\ m_manifest = None /\ m_error = ""
    /\ LET e == export_manifest(m_tree)
       IN  /\ m_manifest' = e.manifest
           /\ m_error' = e.error
    /\ UNCHANGED <<m_tree, m_file, m_other, m_before, m_via>>
    /\ UNCHANGED manFrame

\* the stored manifest comes back with another root
ManCorruptRoot ==
    /\ m_manifest # None /\ m_via = ""
    /\ m_manifest[1].root # WrongRoot
    /\ m_manifest' = Some([m_manifest[1] EXCEPT !.root = WrongRoot])
    /\ UNCHANGED <<m_tree, m_file, m_other, m_before, m_via, m_error>>
    /\ UNCHANGED manFrame

\* the stored manifest comes back with another timestamp in one leaf
ManCorruptLeaf(i) ==
    /\ m_manifest # None /\ m_via = ""
    /\ i \in 1..Len(m_manifest[1].leaves)
    /\ m_manifest[1].leaves[i].timestamp = IntOf(SplitParts(m_tree.leaves[i])[4])
    /\ m_manifest' = Some([m_manifest[1] EXCEPT !.leaves[i].timestamp = @ + 1])
    /\ UNCHANGED <<m_tree, m_file, m_other, m_before, m_via, m_error>>
    /\ UNCHANGED manFrame

\* m_other.import_manifest(manifest)
ManImport ==
    /\ m_manifest # None
    /\ m_via # "import"
    /\ LET r == import_manifest(m_manifest[1])
       IN  /\ m_other' = r.tree
           /\ m_error' = r.error
    /\ m_before' = m_other
    /\ m_via' = "import"
    /\ UNCHANGED <<m_tree, m_manifest, m_file>>
    /\ UNCHANGED manFrame

\* save_merkle_tree(m_tree, file)
ManSave ==
    /\ m_file = AbsentFile
    /\ m_file' = SavedData(m_tree)
    /\ UNCHANGED <<m_tree, m_manifest, m_other, m_before, m_via, m_error>>
    /\ UNCHANGED manFrame

\* m_other, _ = load_merkle_tree(file)
ManLoad ==
    /\ m_via = ""
    /\ m_other' = load_merkle_tree(m_file).merkle
    /\ m_before' = m_other
    /\ m_via' = "load"
    /\ UNCHANGED <<m_tree, m_manifest, m_file, m_error>>
    /\ UNCHANGED manFrame

ManNext ==
    \/ \E input \in ManInputs, timestamp \in Times : ManAppend(input, timestamp)
    \/ ManExport
    \/ ManCorruptRoot
    \/ \E i \in 1..MaxLeaves : ManCorruptLeaf(i)
    \/ ManImport
    \/ ManSave
    \/ ManLoad

(***************************************************************************)
(* register_image.py: calls made one after the other on a fresh registry,  *)
(* with pointers and platform ids that hold the delimiter.                 *)
(***************************************************************************)
MaxSerialCalls == 3

\* register_image takes any string as pointer and as platform_id; these two
\* pairs give the same text between the DNA and the timestamp
Labels ==
    {[pointer |-> <<"p">>, platform_id |-> <<"q", "|", "m">>],
     [pointer |-> <<"p", "|", "q">>, platform_id |-> <<"m">>]}

SerialInit ==
    /\ l_file = AbsentFile
    /\ l_calls = <<>>

\* register_image(image_path, pointer, platform_id) from entry to return
SerialRegister(image_path, label, timestamp) ==
    /\ Len(l_calls) < MaxSerialCalls
    /\ LET r == register_image(l_file, image_path, label.pointer, label.platform_id,
                               SimilarityThresholdNum, SimilarityThresholdDen, timestamp)
       IN  /\ l_file' = r.file
           /\ l_calls' = Append(l_calls, [image_path |-> image_path,
                                          pointer |-> label.pointer,
                                          platform_id |-> label.platform_id,
                                          outcome |-> r.outcome])
    /\ UNCHANGED serialFrame

SerialNext ==
    \E image_path \in Images, label \in Labels, timestamp \in Times :
        SerialRegister(image_path, label, timestamp)

\* the concurrent register_image calls, for one image under these labels
RegNextLabelled ==
    \/ \E p \in Procs, label \in Labels :
          RegStart(p, "A", Some(label.pointer), label.platform_id)
    \/ \E p \in Procs, timestamp \in Times : RegLoad(p, timestamp)
    \/ \E p \in Procs : RegSaveOpen(p)
    \/ \E p \in Procs : RegSaveOpenFails(p)
    \/ \E p \in Procs : RegSaveDump(p)
    \/ \E p \in Procs : RegSaveDumpFails(p)

(***************************************************************************)
(* image_dna.py and perceptual_hash.py: extraction of the DNA of an image, *)
(* sequentially (compute_dna) and with the three structural scales in a    *)
(* thread pool (generate_perceptual_hash).                                 *)
(*                                                                         *)
(* An image is given by its size, by the number of dark (0) rows at its    *)
(* top and dark columns at its left, all other pixels having luminance 1,  *)
(* and by one row of the 9x8 array the gradient step reduces it to (the    *)
(* eight rows of these images are alike).  Bit strings are sequences of 0  *)
(* and 1.                                                                  *)
(***************************************************************************)
PadSize == 2048
CenterSize == 1024
HashSize == 8
GridConfigs == <<[block_size |-> 128, grid_size |-> 8],
                 [block_size |-> 85, grid_size |-> 12],
                 [block_size |-> 64, grid_size |-> 16]>>
Scales == 1..3

FlatRow == <<1, 1, 1, 1, 1, 1, 1, 1, 1>>

ExtractImages ==
    {[width |-> 1024, height |-> 1024, dark_rows |-> 0, dark_cols |-> 0, pixels |-> FlatRow],
     [width |-> 1024, height |-> 1024, dark_rows |-> 512, dark_cols |-> 0, pixels |-> FlatRow],
     [width |-> 1024, height |-> 1024, dark_rows |-> 384, dark_cols |-> 0, pixels |-> FlatRow],
     [width |-> 1024, height |-> 1024, dark_rows |-> 0, dark_cols |-> 512,
      pixels |-> <<0, 0, 0, 0, 1, 2, 2, 2, 2>>],
     [width |-> 1024, height |-> 1024, dark_rows |-> 0, dark_cols |-> 300,
      pixels |-> <<0, 2, 2, 2, 2, 2, 2, 2, 2>>],
     [width |-> 5, height |-> 5, dark_rows |-> 0, dark_cols |-> 0, pixels |-> FlatRow],
     [width |-> 1024, height |-> 6, dark_rows |-> 0, dark_cols |-> 0, pixels |-> FlatRow]}

\* numpy>=1.21.0 (setup.py): under numpy 1.x a Python int combined with a
\* numpy uint8 scalar gives an int64, under numpy 2.x a uint8
Builds == {"numpy1", "numpy2"}

\* length of the intersection of [a0, a1) and [b0, b1)
Overlap(a0, a1, b0, b1) == Max(0, Min(a1, b1) - Max(a0, b0))

\* pad_to_square and the crop of the centre: where an image side of this
\* size starts in the 1024x1024 centre
PasteAt(size) == (PadSize - size) \div 2 - (PadSize - CenterSize) \div 2

\* block_average(gray, block_size) on the centre, as the row-major sequence
\* of the block sums (the means times block_size squared)
block_average(img, block_size) ==
    LET n == CenterSize \div block_size
        rows(R) == Overlap(PasteAt(img.height) + img.dark_rows,
                           PasteAt(img.height) + img.height,
                           R * block_size, (R + 1) * block_size)
        cols(C) == Overlap(PasteAt(img.width) + img.dark_cols,
                           PasteAt(img.width) + img.width,
                           C * block_size, (C + 1) * block_size)
    IN  [k \in 1..(n * n) |-> rows((k - 1) \div n) * cols((k - 1) % n)]

\* the element at 0-based position k of the sorted values
SortedAt(vals, k) ==
    CHOOSE v \in {vals[i] : i \in 1..Len(vals)} :
        /\ Cardinality({i \in 1..Len(vals) : vals[i] < v}) <= k
        /\ k < Cardinality({i \in 1..Len(vals) : vals[i] <= v})

\* twice np.median(grid): the mean of the two middle values for an even
\* number of values
TwiceMedian(vals) ==
    IF Len(vals) % 2 = 1 THEN 2 * SortedAt(vals, (Len(vals) - 1) \div 2)
    ELSE SortedAt(vals, Len(vals) \div 2 - 1) + SortedAt(vals, Len(vals) \div 2)

\* median_fast: np.percentile(arr, 50, interpolation='nearest'), the value
\* at position around((n - 1) / 2), halves rounded to the even position
median_fast(vals) ==
    LET twice == Len(vals) - 1
        lower == twice \div 2
    IN  SortedAt(vals, IF twice % 2 = 0 THEN lower
                       ELSE IF lower % 2 = 0 THEN lower ELSE lower + 1)

\* Image.resize((8, 8), NEAREST) of an n x n grid: source index of x
PilNearest(n, x) == ((2 * x + 1) * n) \div (2 * HashSize)

\* scipy zoom(binary, 8 / n, order=0): source index of x
ZoomNearest(n, x) == (2 * x * (n - 1) + (HashSize - 1)) \div (2 * (HashSize - 1))

\* resize_grid(binary_grid, 8, 8)
resize_grid(binary, n) ==
    IF n = HashSize THEN binary
    ELSE [k \in 1..(HashSize * HashSize) |->
             binary[PilNearest(n, (k - 1) \div HashSize) * n
                    + PilNearest(n, (k - 1) % HashSize) + 1]]

\* one scale of compute_grid_hash: threshold at np.median, resize to 8x8
GridScale(img, config) ==
    LET grid == block_average(img, config.block_size)
        threshold == TwiceMedian(grid)
        binary == [k \in 1..Len(grid) |-> IF 2 * grid[k] > threshold THEN 1 ELSE 0]
    IN  resize_grid(binary, config.grid_size)

\* process_single_grid(gray_array, block_size, grid_size)
process_single_grid(img, config) ==
    LET grid == block_average(img, config.block_size)
        n == config.grid_size
        threshold == median_fast(grid)
        binary == [k \in 1..Len(grid) |-> IF grid[k] > threshold THEN 1 ELSE 0]
    IN  IF n = HashSize THEN binary
        ELSE [k \in 1..(HashSize * HashSize) |->
                 binary[ZoomNearest(n, (k - 1) \div HashSize) * n
                        + ZoomNearest(n, (k - 1) % HashSize) + 1]]

\* np.packbits(bits).tobytes().hex() for a number of bits divisible by 4
PackHex(bits) ==
    [k \in 1..(Len(bits) \div 4) |->
        HexChars[8 * bits[4 * k - 3] + 4 * bits[4 * k - 2] + 2 * bits[4 * k - 1]
                 + bits[4 * k] + 1]]

\* compute_grid_hash: the three scales one after the other, hex()[:48]
compute_grid_hash(img) ==
    SubSeq(PackHex(GridScale(img, GridConfigs[1]) \o GridScale(img, GridConfigs[2])
                   \o GridScale(img, GridConfigs[3])), 1, 48)

\* hex_str.ljust(48, '0')
Ljust(s, width) == s \o [k \in 1..(width - Len(s)) |-> "0"]

\* the end of compute_grid_hash_parallel: results in the order of configs
compute_grid_hash_parallel(results) ==
    Ljust(SubSeq(PackHex(results[1] \o results[2] \o results[3]), 1, 48), 48)

\* diff = pixels[:, 1:] > pixels[:, :-1], flattened: eight like rows
GradientBits(img) ==
    [k \in 1..(HashSize * HashSize) |->
        IF img.pixels[((k - 1) % HashSize) + 2] > img.pixels[((k - 1) % HashSize) + 1]
        THEN 1 ELSE 0]

RECURSIVE StripZeros(_)
\* the binary numeral of an integer: no leading zeros (empty for zero)
StripZeros(bits) ==
    IF bits = <<>> \/ Head(bits) = 1 THEN bits ELSE StripZeros(Tail(bits))

\* format(n, 'x') of the non-negative integer with this binary numeral
HexOfNumeral(numeral) ==
    IF numeral = <<>> THEN <<"0">>
    ELSE PackHex([k \in 1..((4 - (Len(numeral) % 4)) % 4) |-> 0] \o numeral)

\* the zero padding of format(n, '016x'): up to the width, sign included
ZeroPad(digits, width) == [k \in 1..(width - Len(digits)) |-> "0"] \o digits

\* compute_dhash_legacy: f'{int(bitstring, 2):016x}'
compute_dhash_legacy(img) == ZeroPad(HexOfNumeral(StripZeros(GradientBits(img))), 16)

\* the two's complement negation of a bit pattern
Negated(bits) ==
    LET last == CHOOSE k \in 1..Len(bits) :
                    bits[k] = 1 /\ \A j \in (k + 1)..Len(bits) : bits[j] = 0
    IN  [k \in 1..Len(bits) |-> IF k < last THEN 1 - bits[k] ELSE bits[k]]

\* pack_bits_fast: hash_int = (hash_int << 1) | bit over numpy uint8 bits.
\* Under numpy 2.x hash_int is a uint8 and keeps the last 8 bits; under
\* numpy 1.x it is an int64, negative when the first of 64 bits is set.
pack_bits_fast(bits, build) ==
    IF build = "numpy2"
    THEN ZeroPad(HexOfNumeral(StripZeros(SubSeq(bits, Len(bits) - 7, Len(bits)))), 16)
    ELSE IF bits[1] = 0 THEN ZeroPad(HexOfNumeral(StripZeros(bits)), 16)
    ELSE <<"-">> \o ZeroPad(HexOfNumeral(StripZeros(Negated(bits))), 15)

\* compute_dna (lines 52-72): no test of the image size is made
ExtractDna(img) ==
    [error |-> "", dna_hex |-> compute_dhash_legacy(img) \o compute_grid_hash(img)]

NoFuture == <<>>

ExtractIdle ==
    /\ x_results = [scale \in Scales |-> NoFuture]
    /\ x_order = <<>>
    /\ x_out = None
    /\ x_legacy = None

ExtractUnused ==
    /\ x_image = CHOOSE img \in ExtractImages : img.dark_rows = 512
    /\ x_build = "numpy2"
    /\ ExtractIdle

ExtractInit ==
    /\ x_image \in ExtractImages
    /\ x_build \in Builds
    /\ ExtractIdle

\* one future of the ThreadPoolExecutor finishes
GridWorker(scale) ==
    /\ x_results[scale] = NoFuture
    /\ x_results' = [x_results EXCEPT ![scale] =
                        <<process_single_grid(x_image, GridConfigs[scale])>>]
    /\ x_order' = Append(x_order, scale)
    /\ UNCHANGED <<x_image, x_build, x_out, x_legacy>>
    /\ UNCHANGED extractFrame

\* results = [f.result() for f in futures], and the rest of
\* generate_perceptual_hash
ExtractCollect ==
    /\ x_out = None
    /\ \A scale \in Scales : x_results[scale] # NoFuture
    /\ x_out' = Some([error |-> "",
                      dna_hex |-> pack_bits_fast(GradientBits(x_image), x_build)
                                  \o compute_grid_hash_parallel(
                                         [scale \in Scales |-> x_results[scale][1]])])
    /\ UNCHANGED <<x_image, x_build, x_results, x_order, x_legacy>>
    /\ UNCHANGED extractFrame

\* compute_dna(image), as register_image calls it
ExtractLegacy ==
    /\ x_legacy = None
    /\ x_legacy' = Some(ExtractDna(x_image))
    /\ UNCHANGED <<x_image, x_build, x_results, x_order, x_out>>
    /\ UNCHANGED extractFrame

ExtractNext ==
    \/ \E scale \in Scales : GridWorker(scale)
    \/ ExtractCollect
    \/ ExtractLegacy

(***************************************************************************)
(* core.py: CoreProtocol.register_asset with its registry file, and        *)
(* restarts (a new CoreProtocol loading the file).                         *)
(***************************************************************************)
MaxCoreEvents == 3

\* the keys of the dictionary extract_dna_features returns
DnaDataKeys == {"dna_signature", "dna_hex", "dna_binary", "dhash", "grid_hash",
                "algorithm", "perceptual_hash", "bits"}

\* extract_dna_features(asset_path)['dna_signature']: the hex digest of the
\* DNA hex string
dna_signature(asset_path) == HexOf(blake3_hash(ImageDna[asset_path]))

\* dna_signature[:32]
AssetId(signature) == [first32 |-> signature]

\* the duplicate check of register_asset: the dna_hash of the fingerprints
\* that are objects or dictionaries; a fingerprint read back as a string
\* gives none
existing_dna_hashes(assets) ==
    {assets[id].dna_hash : id \in {i \in DOMAIN assets : assets[i].fingerprint # "str"}}

\* json.dump(data, f, default=str) followed by json.load: a Fingerprint
\* object comes back as the string str() makes of it
Reloaded(assets) == [id \in DOMAIN assets |-> [assets[id] EXCEPT !.fingerprint = "str"]]

NoCoreFile == [kind |-> "absent", assets |-> <<>>, merkle_leaves |-> <<>>]

\* CoreProtocol.register_asset (lines 152-216) with _save_registry
register_asset(assets, leaves, registry_file, asset_path) ==
    LET signature == dna_signature(asset_path)
        asset_id == AssetId(signature)
    IN  IF signature \in existing_dna_hashes(assets)
        THEN [outcome |-> "None", assets |-> assets, leaves |-> leaves, file |-> registry_file]
        ELSE IF ~({"features", "image_info"} \subseteq DnaDataKeys)
        THEN [outcome |-> "KeyError", assets |-> assets, leaves |-> leaves,
              file |-> registry_file]
        ELSE LET stored == [id \in (DOMAIN assets) \cup {asset_id} |->
                               IF id = asset_id
                               THEN [fingerprint |-> "object", dna_hash |-> signature]
                               ELSE assets[id]]
                 appended == Append(leaves, asset_id)
             IN  [outcome |-> "fingerprint", assets |-> stored, leaves |-> appended,
                  file |-> [kind |-> "json", assets |-> Reloaded(stored),
                            merkle_leaves |-> appended]]

CoreInit ==
    /\ c_assets = <<>>
    /\ c_leaves = <<>>
    /\ c_file = NoCoreFile
    /\ c_events = <<>>

\* protocol.register_asset(asset_path, creator_id)
CoreRegister(asset_path) ==
    /\ Len(c_events) < MaxCoreEvents
    /\ LET r == register_asset(c_assets, c_leaves, c_file, asset_path)
       IN  /\ c_assets' = r.assets
           /\ c_leaves' = r.leaves
           /\ c_file' = r.file
           /\ c_events' = Append(c_events, [op |-> "register", asset_path |-> asset_path,
                                            outcome |-> r.outcome])
    /\ UNCHANGED coreFrame

\* CoreProtocol(registry_dir): __init__ and _load_registry (lines 218-231)
CoreRestart ==
    /\ Len(c_events) < MaxCoreEvents
    /\ c_assets' = c_file.assets
    /\ c_leaves' = c_file.merkle_leaves
    /\ c_events' = Append(c_events, [op |-> "restart", asset_path |-> "", outcome |-> ""])
    /\ UNCHANGED c_file
    /\ UNCHANGED coreFrame

CoreNext ==
    \/ \E asset_path \in ValidImages : CoreRegister(asset_path)
    \/ CoreRestart

(***************************************************************************)
(* api_server_complete.py: compare_dna_endpoint (/api/v1/dna/compare).     *)
(***************************************************************************)
\* threshold = 0.90, as a fraction
CompareThresholdNum == 90
CompareThresholdDen == 100

\* request DNAs: 64-digit strings at these bit counts, and a shorter string
CompareOnes == {0, 1, 20, 25, 26, 27, 52, 128, 255, 256}
CompareDnas == {DnaWithOnes(ones) : ones \in CompareOnes} \cup {<<"a", "b">>}

NoCompare == [status |-> 0]

\* compare_dna_endpoint (lines 249-263): the threshold 0.90 is handed to
\* is_duplicate, which compares the Hamming distance (an integer) with it:
\* distance <= 0.90 is distance <= 0
compare_dna_endpoint(dna1, dna2) ==
    IF hamming_distance(dna1, dna2) = -1
    THEN [status |-> 500]
    ELSE [status |-> 200,
          similarity |-> dna_similarity(dna1, dna2),
          is_duplicate |-> is_duplicate(dna1, dna2, CompareThresholdNum \div CompareThresholdDen),
          threshold |-> <<CompareThresholdNum, CompareThresholdDen>>]

CompareInit ==
    /\ q_request = <<>>
    /\ q_response = NoCompare

\* POST /api/v1/dna/compare
CompareDna(dna1, dna2) ==
    /\ q_request' = <<dna1, dna2>>
    /\ q_response' = compare_dna_endpoint(dna1, dna2)
    /\ UNCHANGED compareFrame

CompareNext == \E dna1, dna2 \in CompareDnas : CompareDna(dna1, dna2)

(***************************************************************************)
(* The specifications.  Each one runs one component; the objects of the    *)
(* other components stay as they were constructed.                         *)
(***************************************************************************)
RegIdle == file = AbsentFile /\ RegInit
ProofUnused == p_leaves = <<>> /\ ProofIdle

InitReg == RegInit /\ TreeInit /\ ProofUnused /\ ApiInit /\ BatchUnused /\ DupUnused /\ ManInit /\ SerialInit /\ ExtractUnused /\ CoreInit /\ CompareInit
InitTree == RegIdle /\ TreeInit /\ ProofUnused /\ ApiInit /\ BatchUnused /\ DupUnused /\ ManInit /\ SerialInit /\ ExtractUnused /\ CoreInit /\ CompareInit
InitProof == RegIdle /\ TreeInit /\ ProofInit /\ ApiInit /\ BatchUnused /\ DupUnused /\ ManInit /\ SerialInit /\ ExtractUnused /\ CoreInit /\ CompareInit
InitApi == RegIdle /\ TreeInit /\ ProofUnused /\ ApiInit /\ BatchUnused /\ DupUnused /\ ManInit /\ SerialInit /\ ExtractUnused /\ CoreInit /\ CompareInit
InitBatch == RegIdle /\ TreeInit /\ ProofUnused /\ ApiInit /\ BatchInit /\ DupUnused /\ ManInit /\ SerialInit /\ ExtractUnused /\ CoreInit /\ CompareInit
InitDup == RegIdle /\ TreeInit /\ ProofUnused /\ ApiInit /\ BatchUnused /\ DupInit /\ ManInit /\ SerialInit /\ ExtractUnused /\ CoreInit /\ CompareInit
InitMan == RegIdle /\ TreeInit /\ ProofUnused /\ ApiInit /\ BatchUnused /\ DupUnused /\ ManInit /\ SerialInit /\ ExtractUnused /\ CoreInit /\ CompareInit
InitSerial == RegIdle /\ TreeInit /\ ProofUnused /\ ApiInit /\ BatchUnused /\ DupUnused /\ ManInit /\ SerialInit /\ ExtractUnused /\ CoreInit /\ CompareInit
InitExtract == RegIdle /\ TreeInit /\ ProofUnused /\ ApiInit /\ BatchUnused /\ DupUnused /\ ManInit /\ SerialInit /\ ExtractInit /\ CoreInit /\ CompareInit
InitCore == RegIdle /\ TreeInit /\ ProofUnused /\ ApiInit /\ BatchUnused /\ DupUnused /\ ManInit /\ SerialInit /\ ExtractUnused /\ CoreInit /\ CompareInit
InitCompare == RegIdle /\ TreeInit /\ ProofUnused /\ ApiInit /\ BatchUnused /\ DupUnused /\ ManInit /\ SerialInit /\ ExtractUnused /\ CoreInit /\ CompareInit

SpecReg == InitReg /\ [][RegNext]_vars
SpecTree == InitTree /\ [][TreeNext]_vars
SpecProof == InitProof /\ [][ProofNext]_vars
SpecApi == InitApi /\ [][ApiNext]_vars
SpecBatch == InitBatch /\ [][BatchNext]_vars
SpecDup == InitDup /\ [][DupNext]_vars
SpecMan == InitMan /\ [][ManNext]_vars
SpecSerial == InitSerial /\ [][SerialNext]_vars
SpecRegLabelled == InitReg /\ [][RegNextLabelled]_vars
SpecTreeImport == InitTree /\ [][TreeImportNext]_vars
SpecExtract == InitExtract /\ [][ExtractNext]_vars
SpecCore == InitCore /\ [][CoreNext]_vars
SpecCompare == InitCompare /\ [][CompareNext]_vars

(***************************************************************************)
(* Properties of proofs and of the registry of the API server.             *)
(***************************************************************************)
Verified == vresult # None

\* the proof element at the tampered position pairs the running hash with
\* itself: its sibling hash is the hash the fold has reached at that level
SelfPairedAt(k) ==
    /\ k \in 1..Len(vproof)
    /\ FromHex(vproof[k].hash) = FoldProof(blake3_hash(vleaf), SubSeq(vproof, 1, k - 1))

IsPrefix(s, t) == Len(s) <= Len(t) /\ SubSeq(t, 1, Len(s)) = s

\* C9: the leaf sequence before each operation is a prefix of the leaf
\* sequence after it.
C9_AppendOnly ==
    [][IsPrefix(ApiLeaves(api_registry), ApiLeaves(api_registry'))]_vars

(***************************************************************************)
(* Leaf indices of accepted registrations.                                 *)
(***************************************************************************)
\* the leaf index an accepted call was given: add_leaf returns
\* len(self.leaves) - 1, and register_image reports len(merkle.leaves)
LeafIndexOf(res) == res.registry_size - 1

\* C11: no two accepted registrations on the same registry are given the same
\* leaf index.
C11_DistinctLeafIndices ==
    \A p, q \in Procs :
        (p # q /\ pc[p] = "returned" /\ pc[q] = "returned"
              /\ result[p].success /\ result[q].success)
            => LeafIndexOf(result[p]) # LeafIndexOf(result[q])

(***************************************************************************)
(* Properties of process_folder.                                           *)
(***************************************************************************)
\* the line process_folder prints for an outcome of register_image
PrintedFor(outcome) ==
    CASE outcome = "accepted" -> "ACCEPT"
      [] outcome = "rejected" -> "REJECT"
      [] outcome = "failed" -> "ERROR"

\* C12: a finished batch has, item by item, the outcomes of register calls on
\* the items in input order, and leaves the leaf sequence and root they leave.
C12_BatchAsSerial ==
    b_pc = "done" =>
        LET serial == RegisterEach(b_file_before, b_images, b_times, <<>>)
        IN  /\ b_outcomes = [i \in 1..Len(serial.outcomes) |-> PrintedFor(serial.outcomes[i])]
            /\ b_file.leaves = serial.file.leaves
            /\ b_file.root_hash = serial.file.root_hash

(***************************************************************************)
(* Properties of the duplicate check.                                      *)
(***************************************************************************)
\* the Hamming distances of the DNAs of the queries, computed once
QueryDistance == [a \in QueryDnas, b \in QueryDnas |-> hamming_distance(a, b)]
DistanceTo(i) == QueryDistance[s_dna, s_existing_dnas[i]]
WithinThreshold(i) == DistanceTo(i) <= s_T
SomeWithin == \E i \in 1..Len(s_existing_dnas) : WithinThreshold(i)
FirstWithin == CHOOSE i \in 1..Len(s_existing_dnas) :
                   WithinThreshold(i) /\ \A j \in 1..(i - 1) : ~WithinThreshold(j)

\* C13: when some registered leaf is within distance T of the candidate, the
\* check reports a duplicate, the lowest-index such leaf and that leaf's
\* Hamming distance.
C13_FirstWithinReported ==
    (s_linear # None /\ SomeWithin) =>
        /\ s_linear[1].is_duplicate
        /\ s_linear[1].match_info # None
        /\ s_linear[1].match_info[1].index = FirstWithin - 1
        /\ s_linear[1].match_info[1].hamming_distance = DistanceTo(FirstWithin)
        /\ s_linear[1].match_info[1].existing_dna = s_existing_dnas[FirstWithin]

\* a leaf outside the threshold, then two leaves within it, the later closer
C13_Witness ==
    /\ s_linear # None
    /\ Len(s_existing_dnas) = 3
    /\ ~WithinThreshold(1) /\ WithinThreshold(2) /\ WithinThreshold(3)
    /\ DistanceTo(3) < DistanceTo(2)
    /\ s_linear[1].is_duplicate
    /\ s_linear[1].match_info[1].index = 1

ClosestFirst == CHOOSE i \in 1..Len(s_existing_dnas) :
                    /\ \A j \in 1..Len(s_existing_dnas) : DistanceTo(i) <= DistanceTo(j)
                    /\ \A j \in 1..(i - 1) : DistanceTo(j) > DistanceTo(i)

\* C14: on a non-empty registry with no leaf within distance T the check
\* reports no duplicate and, as best match, the leaf of minimum Hamming
\* distance, the lowest index among equally close leaves.
C14_BestMatchIsClosest ==
    (s_linear # None /\ s_existing_dnas # <<>> /\ ~SomeWithin) =>
        /\ ~s_linear[1].is_duplicate
        /\ s_linear[1].match_info # None
        /\ s_linear[1].match_info[1].index = ClosestFirst - 1
        /\ s_linear[1].match_info[1].hamming_distance = DistanceTo(ClosestFirst)

\* C18: on the same DNAs, candidate and threshold, the similarity index gives
\* the verdict of the linear scan and the entry the linear scan matches.
C18_IndexAsLinearScan ==
    (s_linear # None /\ s_vdb # None) =>
        /\ s_vdb[1].is_unique = ~s_linear[1].is_duplicate
        /\ s_linear[1].is_duplicate =>
              s_vdb[1].duplicates[1].pointer = s_linear[1].match_info[1].index

(***************************************************************************)
(* Registering an image again.                                             *)
(***************************************************************************)
\* the calls of the current epoch that registered, again, the image whose
\* accepted registration left the initial registry behind
RepeatedCalls ==
    {k \in 1..Len(epoch.calls) :
        /\ epoch.file = InitialRegistry
        /\ epoch.calls[k].args.image_path = "C"
        /\ epoch.calls[k].outcome # "running"}

LastCallOf(p) ==
    CHOOSE k \in 1..Len(epoch.calls) :
        /\ epoch.calls[k].proc = p
        /\ \A j \in (k + 1)..Len(epoch.calls) : epoch.calls[j].proc # p

\* C15: a register call with the image of an accepted registration returns
\* Rejected and names the leaf of that registration as the match.
C15_RepeatRejected ==
    \A k \in RepeatedCalls :
        /\ epoch.calls[k].outcome = "rejected"
        /\ LastCallOf(epoch.calls[k].proc) = k =>
              /\ result[epoch.calls[k].proc].plagiarized
              /\ result[epoch.calls[k].proc].match # None
              /\ result[epoch.calls[k].proc].match[1].index = 0

(***************************************************************************)
(* Properties of manifests and of the root.                                *)
(***************************************************************************)
\* C16: when import_manifest fails because the recorded root does not match
\* the root rebuilt from the leaves, the leaves and root of the tree are what
\* they were before the call.
C16_FailedImportLeavesTree ==
    (m_via = "import" /\ m_error = "ValueError") => m_other = m_before

AcceptedInEpoch == {k \in 1..Len(epoch.calls) : epoch.calls[k].outcome = "accepted"}

\* the leaf preimage an accepted call appended
LeafOfCall(c) ==
    LeafData(ImageDna[c.args.image_path], c.args.pointer[1], c.args.platform_id,
             CHOOSE timestamp \in Times : TRUE)

\* C17: two accepted leaves with distinct pointers have different preimages,
\* whatever strings were given as pointer and platform_id.
C17_PreimageInjective ==
    \A j, k \in AcceptedInEpoch :
        epoch.calls[j].args.pointer # epoch.calls[k].args.pointer
            => LeafOfCall(epoch.calls[j]) # LeafOfCall(epoch.calls[k])

\* the outcomes of registering the two images of the first two calls in the
\* other order on a fresh registry
ReversedOutcomes ==
    RegisterEach(AbsentFile, <<l_calls[2].image_path, l_calls[1].image_path>>,
                 <<10, 10>>, <<>>).outcomes

\* C20: if registering I1 and then I2 on a fresh registry rejects I2, then
\* registering I2 and then I1 on a fresh registry rejects I1.
C20_DuplicateSymmetry ==
    (Len(l_calls) >= 2 /\ l_calls[2].outcome = "rejected")
        => ReversedOutcomes[2] = "rejected"

\* image D, 25 bits from image A, rejected after A
C20_Witness ==
    /\ Len(l_calls) >= 2
    /\ l_calls[1].image_path = "A" /\ l_calls[1].outcome = "accepted"
    /\ l_calls[2].image_path = "D" /\ l_calls[2].outcome = "rejected"
    /\ ReversedOutcomes = <<"accepted", "rejected">>

(***************************************************************************)
(* Properties of the empty tree.                                           *)
(***************************************************************************)
\* the indices a caller asks a proof for
ProbeIndices == (0 - 1)..MaxLeaves

\* C21: on a tree with no leaves root() returns None and proof(i) fails with
\* the out-of-range error for every index i.
C21_EmptyTree ==
    tree.leaves = <<>> =>
        /\ get_root(tree.root) = None
        /\ \A i \in ProbeIndices :
               get_proof(tree.leaves, tree.root, i).error = "IndexError"

(***************************************************************************)
(* Properties of the shape of built trees and of their proofs.             *)
(***************************************************************************)
\* C22: for a tree with exactly one leaf the root is the hash of that leaf's
\* preimage and the proof for index 0 is the empty path.
C22_SingleLeaf ==
    (Len(p_leaves) = 1 /\ vkind = "genuine") =>
        /\ vroot = Some(HexOf(blake3_hash(p_leaves[1])))
        /\ vproof = <<>>

\* the proof of the only leaf was generated and has verified
C22_Witness ==
    /\ Len(p_leaves) = 1 /\ vkind = "genuine" /\ p_index = 0
    /\ vproof = <<>>
    /\ vresult = Some(TRUE)

\* ceil(log2 n) for n >= 1: the least k with 2^k >= n
CeilLog2(n) == CHOOSE k \in 0..n : Pow2(k) >= n /\ \A j \in 0..(k - 1) : Pow2(j) < n

\* C23: for a registry of n >= 1 leaves the proof of every leaf index has
\* exactly ceil(log2 n) elements.
C23_ProofLength ==
    vkind = "genuine" => Len(vproof) = CeilLog2(Len(p_leaves))

\* the proof of leaf 2 of a five-leaf registry has 3 elements and verifies
C23_Witness ==
    /\ Len(p_leaves) = 5 /\ vkind = "genuine" /\ p_index = 2
    /\ Len(vproof) = 3
    /\ vresult = Some(TRUE)

(***************************************************************************)
(* Properties of extraction.                                               *)
(***************************************************************************)
\* the structural component of a fingerprint: what follows the first 16
\* characters
StructuralOf(dna_hex) == SubSeq(dna_hex, Len(dna_hex) - 47, Len(dna_hex))

\* C24: the structural component computed with the three scales in parallel
\* is the one computed sequentially, whatever the order in which the three
\* computations finish, the grids being concatenated in the order of the
\* scales.
C24_ParallelAsSequential ==
    x_out # None => StructuralOf(x_out[1].dna_hex) = compute_grid_hash(x_image)

\* C25: extraction of an image whose width or height is less than 8 pixels
\* fails with ImageTooSmall and returns no fingerprint.
C25_ImageTooSmall ==
    (x_legacy # None /\ (x_image.width < 8 \/ x_image.height < 8)) =>
        x_legacy[1].error = "ImageTooSmall"

HexDigits == {HexChars[i] : i \in 1..16}
IsFingerprint(dna_hex) ==
    Len(dna_hex) = DnaHexLen /\ \A k \in 1..Len(dna_hex) : dna_hex[k] \in HexDigits

\* C26: every fingerprint returned by extraction is exactly 64 hex
\* characters, 16 of the gradient component and 48 of the structural one.
C26_FingerprintLength ==
    /\ x_legacy # None => IsFingerprint(x_legacy[1].dna_hex)
    /\ x_out # None => IsFingerprint(x_out[1].dna_hex)

(***************************************************************************)
(* Properties of the root as the identity of a registry, and of the        *)
(* manifest round trip.                                                    *)
(***************************************************************************)
\* the leaves add_leaf can append to the tree
LeafPool ==
    {LeafData(input.dna_hex, input.pointer, input.platform_id,
              IF input.timestamp = None THEN now ELSE input.timestamp[1]) :
         input \in TreeInputs, now \in Times}

\* the leaf sequences of up to one leaf more than the tree can hold
OtherRegistries ==
    UNION {[1..n -> LeafPool] : n \in 0..(MaxLeaves + 1)}

\* C27: two trees built from different ordered leaf sequences, of equal or
\* of different lengths, never have the same root.
C27_RootIdentifies ==
    \A other \in OtherRegistries :
        other # tree.leaves =>
            get_root(build_tree(other)) # get_root(build_tree(tree.leaves))

\* C28: for every built tree, importing the manifest it exports into a
\* fresh tree succeeds and yields the same leaf preimages and the same root.
C28_ManifestRoundTrip ==
    /\ m_tree.root # None => export_manifest(m_tree).error = ""
    /\ (m_via = "import" /\ m_manifest # None
            /\ m_manifest = export_manifest(m_tree).manifest) =>
           (m_error = "" /\ m_other = m_tree)

C30_VerdictAgrees ==
    q_response.status = 200 =>
        (q_response.is_duplicate <=>
            SimAtLeast(q_response.similarity, q_response.threshold[1], q_response.threshold[2]))

=============================================================================
